---- MODULE Spec2Model ----
(***************************************************************************)
(* A model of the general purpose scheduler of the OCSP staple daemon      *)
(* (src/ocspd/scheduling/__init__.py): the task contexts, the deadline     *)
(* table with its three reverse maps, the stage queues, the dispatch tick  *)
(* and the workers that dequeue.                                           *)
(*                                                                         *)
(* Every operation of SchedulerThread is an operator over a record S that  *)
(* holds the thread's fields (schedule, scheduled_by_context,              *)
(* scheduled_by_queue, scheduled_by_subject, queues); the actions apply    *)
(* the operators to the state variables.  Python dicts are functions whose *)
(* DOMAIN is the set of keys present, lists and queue.Queue are sequences. *)
(***************************************************************************)
EXTENDS Integers, Sequences, FiniteSets, TLC

\* ---------------------------------------------------------------- bounds
NCtx == 3            \* task context objects that exist
MaxTime == 1         \* the clock runs over 0..MaxTime
MaxEntries == 3      \* entries held by the deadline table and the queues together
NWorkers == 1        \* worker threads that dequeue
NTaskContexts == 5   \* task context objects of the pipeline (parse, renew, proxy-add)
MaxUrls == 2         \* OCSP responder URLs of a certificate
NRecords == 3        \* CertModel objects that are alive at one time
MaxTasks == 2        \* tasks of the finder's models in the scheduler at one time
MaxMtime == 1        \* modification times run over 0..MaxMtime
MaxDepth == 3        \* calls of send that are open at one time
MaxFailures == 7     \* failures of one task context that are followed

Ctx == 1..NCtx
Workers == 1..NWorkers
TaskContexts == 1..NTaskContexts
Records == 1..NRecords

\* The stage queues the daemon registers.
QueueNames == {"parse", "renew", "proxy-add"}

\* The subjects (certificate models) the contexts are about.
Subjects == {"a.pem", "b.pem"}

\* ScheduledTaskContext.task_name: set by the constructor, never reassigned.
\* The first three contexts share a stage queue, so that three tasks of one
\* queue can be pending under two deadlines.
\* The contexts after the first NTaskContexts belong to the CertModel objects
\* that the finder makes: three for each, a parse, a renew and a proxy-add
\* context.
TaskNameOf(c) ==
    IF c > NTaskContexts
    THEN <<"parse", "renew", "proxy-add">>[((c - NTaskContexts - 1) % 3) + 1]
    ELSE IF c % 4 = 0 THEN "parse" ELSE IF c % 5 = 0 THEN "proxy-add" ELSE "renew"

\* The CertModel object (1..NRecords) that a context after the first
\* NTaskContexts has as its model.
RecordOf(c) == ((c - NTaskContexts - 1) \div 3) + 1

\* A CertModel object as the subject of a task: the object itself.
RecordName(r) == "CertModel " \o ToString(r)

\* The context of the task name for the CertModel object r.
ContextOf(r, name) ==
    NTaskContexts + 3 * (r - 1)
    + (IF name = "parse" THEN 1 ELSE IF name = "renew" THEN 2 ELSE 3)

\* The contexts of the finder's CertModel objects.
RecordContexts == (NTaskContexts + 1)..(NTaskContexts + 3 * NRecords)

\* ScheduledTaskContext.subject: set by the constructor, never reassigned.
SubjectOf(c) ==
    IF c > NTaskContexts THEN RecordName(RecordOf(c))
    ELSE IF c % 3 = 0 THEN "b.pem" ELSE "a.pem"

\* ------------------------------------------------- sched_time values
\* ctx.sched_time is None, an int (seconds relative to now) or a datetime
\* (absolute).  A value is a pair <<kind, number>>.
None == <<"none", 0>>
RelTime(n) == <<"int", n>>
AbsTime(t) == <<"datetime", t>>
\* Relative times: 0 and a non-zero number of seconds (a negative int takes
\* the same path as a positive one).  Absolute times: every instant of the clock.
RelTimes == {0, 1}
AbsTimes == 0..MaxTime
SchedTimes == {None} \cup {RelTime(n) : n \in RelTimes} \cup {AbsTime(t) : t \in AbsTimes}

\* Python truth value of a sched_time: None and the int 0 are false, every
\* datetime and every other int is true (`if not ctx.sched_time`).
Truthy(st) == st[1] = "datetime" \/ (st[1] = "int" /\ st[2] # 0)

\* The absolute deadline of a true sched_time when add_task runs at `t`:
\* an int is converted to now + seconds, a datetime is kept.
Deadline(st, t) == IF st[1] = "int" THEN t + st[2] ELSE st[2]

\* ------------------------------------------------- dicts and lists
\* d[k] of a defaultdict(list): a missing key reads as the empty list.
DefaultGet(d, k) == IF k \in DOMAIN d THEN d[k] ELSE << >>

\* d[k] = v
DictSet(d, k, v) == [x \in (DOMAIN d) \cup {k} |-> IF x = k THEN v ELSE d[x]]

\* del d[k] / d.pop(k)
DictDel(d, k) == [x \in (DOMAIN d) \ {k} |-> d[x]]

\* x in l
InList(l, x) == \E i \in 1..Len(l) : l[i] = x

\* How often x occurs in l.
Count(l, x) == Cardinality({i \in 1..Len(l) : l[i] = x})

\* The index of the first occurrence of x in l (x is in l).
IndexOf(l, x) == CHOOSE i \in 1..Len(l) : l[i] = x /\ \A j \in 1..(i - 1) : l[j] # x

\* l.remove(x): drops the first occurrence of x (x is in l).
ListRemove(l, x) ==
    LET i == IndexOf(l, x)
    IN  SubSeq(l, 1, i - 1) \o SubSeq(l, i + 1, Len(l))

\* A variant of append that puts x in front: l.insert(0, x).
ListPrepend(l, x) == <<x>> \o l

\* l.append(x)
ListAppend(l, x) == Append(l, x)

\* queue.Queue.put(ctx) on the stage queue `name`.
QueuePut(S, name, c) == [S EXCEPT !.queues[name] = Append(@, c)]

VARIABLES
    now,                    \* datetime.datetime.now()
    schedule,               \* SchedulerThread.schedule: deadline -> list of contexts
    schedule_keys,          \* the keys of schedule in the order they were inserted
    scheduled_by_context,   \* context -> deadline
    scheduled_by_queue,     \* queue name -> list of contexts
    scheduled_by_subject,   \* subject -> list of contexts
    queues,                 \* SchedulerThread._queues: queue name -> queue.Queue
    worker,                 \* the context each worker thread took with get_task
    added_order,            \* history: per queue, the pending contexts in add_task order
    late,                   \* history: the pending contexts that were already due when scheduled
    last,                   \* history: the last operation and what it reported or did
    sched_thread,           \* where the scheduler thread is in _run, and its locals
    task_contexts,          \* per context: last_exception and last_exception_count
    models,                 \* per certificate file: its CertModel and its staple file
    finder,                 \* the finder thread: "running" or "dead"
    failed,                 \* history: per context, the failures since it was made
    tried,                  \* history: per context, the URLs that failed at its delay
    handled,                \* history: the last run of ocsp_except_handle
    files,                  \* the disk: per certificate file, whether it exists and its mtime
    model_cache,            \* CertFinderThread.models: filename -> CertModel object
    cert_models,            \* per CertModel object: its filename and modtime
    finder_thread,          \* where the finder thread is in run(), its locals and its clock
    adder,                  \* the adder thread: its task, its socket and its calls of send
    supervisor,             \* the main thread: all_threads, the live threads, the stop flags
    counts,                 \* history: commands sent per certificate, tasks left without task_done
    uniq                    \* a call of util.functions.unique: its arguments and what it returned

\* The state outside the scheduler's tables that the operations of the
\* scheduler's interface leave alone.
pipeline_vars == <<task_contexts, models, finder, failed, tried, handled, adder, supervisor, counts, uniq>>
finder_vars == <<files, model_cache, cert_models, finder_thread>>
daemon_vars == <<sched_thread, pipeline_vars, finder_vars>>

vars == <<now, schedule, schedule_keys, scheduled_by_context, scheduled_by_queue,
          scheduled_by_subject, queues, worker, added_order, late, last, daemon_vars>>

NoCtx == 0

\* The scheduler's fields as one record.
Sched ==
    [schedule |-> schedule,
     by_context |-> scheduled_by_context,
     by_queue |-> scheduled_by_queue,
     by_subject |-> scheduled_by_subject,
     queues |-> queues,
     exc |-> "none"]

\* ------------------------------------------------- SchedulerThread

\* sched_time = self.scheduled_by_context.pop(ctx)
pop_context(S, c) == [S EXCEPT !.by_context = DictDel(@, c)]

\* self.schedule[sched_time].remove(ctx): reading the defaultdict creates a
\* missing key, list.remove raises ValueError when ctx is not in the list.
remove_from_schedule(S, c, sched_time) ==
    LET slot == DefaultGet(S.schedule, sched_time)
    IN  IF InList(slot, c)
        THEN [S EXCEPT !.schedule[sched_time] = ListRemove(@, c)]
        ELSE [S EXCEPT !.schedule = DictSet(@, sched_time, slot), !.exc = "ValueError"]

\* self.scheduled_by_queue[ctx.task_name].remove(ctx)
remove_from_by_queue(S, c) ==
    IF InList(S.by_queue[TaskNameOf(c)], c)
    THEN [S EXCEPT !.by_queue[TaskNameOf(c)] = ListRemove(@, c)]
    ELSE [S EXCEPT !.exc = "ValueError"]

\* A variant of the removal from scheduled_by_subject that does nothing.
keep_in_by_subject(S, c) == S

\* self.scheduled_by_subject[ctx.subject].remove(ctx)
remove_from_by_subject(S, c) ==
    LET ctxs == DefaultGet(S.by_subject, SubjectOf(c))
    IN  IF InList(ctxs, c)
        THEN [S EXCEPT !.by_subject[SubjectOf(c)] = ListRemove(@, c)]
        ELSE [S EXCEPT !.by_subject = DictSet(@, SubjectOf(c), ctxs), !.exc = "ValueError"]

\* The try block of cancel_task for a context that is a key of
\* scheduled_by_context; an exception ends it where it is raised.
unschedule(S, c) ==
    LET S1 == remove_from_schedule(pop_context(S, c), c, S.by_context[c])
        S2 == IF S1.exc = "none" THEN remove_from_by_queue(S1, c) ELSE S1
    IN  IF S2.exc = "none" THEN remove_from_by_subject(S2, c) ELSE S2

\* A variant of cancel_task that also takes the context off its stage queue.
cancel_task_and_dequeue(S, c) ==
    LET purged == [q \in DOMAIN S.queues |-> SelectSeq(S.queues[q], LAMBDA x : x # c)]
    IN  IF c \in DOMAIN S.by_context
        THEN [S |-> [unschedule(S, c) EXCEPT !.queues = purged], ret |-> TRUE]
        ELSE [S |-> [S EXCEPT !.queues = purged], ret |-> FALSE]

\* cancel_task(ctx): [S |-> the fields afterwards, ret |-> the return value].
\* The KeyError of pop (ctx is no key of scheduled_by_context) is caught and
\* returns False; a ValueError of list.remove is not caught (S.exc is set).
cancel_task(S, c) ==
    IF c \in DOMAIN S.by_context
    THEN [S |-> unschedule(S, c), ret |-> TRUE]
    ELSE [S |-> S, ret |-> FALSE]

\* `if ctx in self.scheduled_by_context: self.cancel_task(ctx)`
cancel_if_scheduled(S, c) ==
    IF c \in DOMAIN S.by_context THEN cancel_task(S, c).S ELSE S

\* add_task(ctx) at time t, with ctx.sched_time = st.  Every context is a
\* ScheduledTaskContext and its task_name is a registered queue, so neither
\* the TypeError nor the KeyError of lines 186-191 is raised.
add_task(S, c, st, t) ==
    LET name == TaskNameOf(c)
        subject == SubjectOf(c)
    IN  IF ~Truthy(st)
        THEN QueuePut(S, name, c)
        ELSE
          LET sched_time == Deadline(st, t)
              S1 == cancel_if_scheduled(S, c)
          IN  IF S1.exc # "none"
              THEN S1
              ELSE [S1 EXCEPT
                      !.by_context = DictSet(@, c, sched_time),
                      !.by_queue[name] = ListAppend(@, c),
                      !.schedule = DictSet(@, sched_time,
                                           ListAppend(DefaultGet(@, sched_time), c)),
                      !.by_subject = DictSet(@, subject,
                                             ListAppend(DefaultGet(@, subject), c))]

\* The loop of cancel_by_subject: `for ctx in ctxs` reads ctxs[i] for
\* i = 0, 1, ... until i reaches the list's current length, and ctxs is the
\* very list scheduled_by_subject[subject] that cancel_task removes from.
RECURSIVE cancel_by_subject_loop(_, _, _)
cancel_by_subject_loop(S, subject, i) ==
    LET ctxs == S.by_subject[subject]
    IN  IF i > Len(ctxs) \/ S.exc # "none"
        THEN S
        ELSE cancel_by_subject_loop(cancel_task(S, ctxs[i]).S, subject, i + 1)

\* cancel_by_subject(subject); reading the defaultdict creates a missing key.
cancel_by_subject(S, subject) ==
    cancel_by_subject_loop(
        [S EXCEPT !.by_subject = DictSet(@, subject, DefaultGet(@, subject))],
        subject, 1)

\* A variant of _run's choice of keys that takes every key (as run_all does).
AllKeys(S, t) == DOMAIN S.schedule

\* A variant of _run's choice of keys that takes only x < now.
KeysBefore(S, t) == {x \in DOMAIN S.schedule : x < t}

\* The keys of schedule that _run takes: x <= now.
DueKeys(S, t) == {x \in DOMAIN S.schedule : x <= t}

\* The body of _run's inner loop for one context of a popped time slot:
\* `del self.scheduled_by_context[ctx]` raises KeyError for a missing key.
run_ctx(S, c) ==
    IF c \notin DOMAIN S.by_context
    THEN [S EXCEPT !.exc = "KeyError"]
    ELSE
      LET S1 == remove_from_by_queue(pop_context(S, c), c)
          S2 == IF S1.exc = "none" THEN remove_from_by_subject(S1, c) ELSE S1
      IN  IF S2.exc = "none" THEN QueuePut(S2, TaskNameOf(c), c) ELSE S2

\* `for ctx in items`: items is the list popped from schedule.
RECURSIVE run_items(_, _, _)
run_items(S, items, i) ==
    IF i > Len(items) \/ S.exc # "none"
    THEN S
    ELSE run_items(run_ctx(S, items[i]), items, i + 1)

\* One round of `for sched_time in todo`: pop the slot, queue its contexts.
run_slot(S, sched_time) ==
    run_items([S EXCEPT !.schedule = DictDel(@, sched_time)], S.schedule[sched_time], 1)

\* `for sched_time in todo` over the keys K, in every order in which iterating
\* the dict can yield them (insertion order from CPython 3.6 on, hash order on
\* the older interpreters setup.py lists): the set of outcomes.
RECURSIVE run_todo(_, _)
run_todo(S, K) ==
    IF K = {} \/ S.exc # "none"
    THEN {S}
    ELSE UNION {run_todo(run_slot(S, k), K \ {k}) : k \in K}

\* _run(): the outcomes of one dispatch pass at time t.
run(S, t) == run_todo(S, DueKeys(S, t))

\* `for sched_time in todo` where todo is the list of keys in the order the
\* dict yields them.
RECURSIVE run_in_order(_, _, _)
run_in_order(S, todo, i) ==
    IF i > Len(todo) \/ S.exc # "none"
    THEN S
    ELSE run_in_order(run_slot(S, todo[i]), todo, i + 1)

\* get_task(task_name): [S |-> the fields afterwards, ret |-> the context].
get_task(S, name) ==
    [S |-> [S EXCEPT !.queues[name] = Tail(@)], ret |-> Head(S.queues[name])]

\* ------------------------------------------------- OCSPTaskContext
\* last_exception = None of a context that has not failed yet.
NoException == "None"

\* The exception state OCSPTaskContext.__init__ sets.
NewTaskContext == [last_exception |-> NoException, last_exception_count |-> 0]

\* `repr(self.last_exception) is repr(exc)`: each call of repr builds a new str
\* object of two characters or more (the quotes), and both objects are alive
\* when `is` compares them, so they are never the same object.
ReprIsRepr(a, b) == FALSE

\* set_last_exception(exc) on the exception state tc; exc is the str the
\* handler passes.  `not self.last_exception` holds for None and for "".
set_last_exception(tc, exc) ==
    IF tc.last_exception = NoException \/ tc.last_exception = ""
       \/ ReprIsRepr(tc.last_exception, exc)
    THEN [last_exception |-> exc, last_exception_count |-> 1]
    ELSE [tc EXCEPT !.last_exception_count = @ + 1]

\* ------------------------------------------------- ocsp_except_handle
\* The classes of exception the handler tells apart: its except clauses in
\* their order, "network" for the clause of the requests exceptions and
\* URLError, "other" for the last clause (`except Exception`).
ExceptionKinds ==
    {"CertFileAccessError", "OCSPAdderBadResponse", "SocketError",
     "RenewalRequirementMissing", "CertValidationError", "CertParsingError",
     "OCSPBadResponse", "network", "other"}

\* No ctx.reschedule() call.
NoDelay == -1

\* What the handler does: the context's exception state and the model's
\* url_index afterwards, the seconds it passes to ctx.reschedule (or NoDelay),
\* whether it removes the staple file, and the exception that leaves it.
Handled(tc, url_index, delay, delete_ocsp) ==
    [tc |-> tc, url_index |-> url_index, delay |-> delay,
     delete_ocsp |-> delete_ocsp, raised |-> "none"]

\* A variant of the cadence of the first clause that never gives up.
cadence_twice_a_day(err_count) ==
    IF err_count < 4 THEN 60 * err_count
    ELSE IF err_count < 7 THEN 3600
    ELSE 43200

\* The clause of CertFileAccessError and OCSPAdderBadResponse: every
\* err_count minutes, then every hour, then give up.
cadence_giving_up(err_count) ==
    IF err_count < 4 THEN 60 * err_count
    ELSE IF err_count < 7 THEN 3600
    ELSE NoDelay

\* A variant of the cadence of OCSPBadResponse that gives up.
cadence_bad_response_giving_up(err_count) ==
    IF err_count < 4 THEN 60 * err_count
    ELSE IF err_count < 7 THEN 3600
    ELSE NoDelay

\* The clause of OCSPBadResponse: the same, but from the 7th time on twice a day.
cadence_bad_response(err_count) ==
    IF err_count < 4 THEN 60 * err_count
    ELSE IF err_count < 7 THEN 3600
    ELSE 43200

\* A variant of the cadence of the network errors that ignores the number of URLs.
cadence_network_one_url(err_count, len_ocsp_urls) ==
    IF err_count < 4 THEN 10
    ELSE IF err_count < 7 THEN 3600
    ELSE 43200

\* The clause of the network errors: per URL three times every 10 seconds,
\* three times every hour, then twice a day.
cadence_network(err_count, len_ocsp_urls) ==
    IF err_count < (3 * len_ocsp_urls) + 1 THEN 10
    ELSE IF err_count < (6 * len_ocsp_urls) + 1 THEN 3600
    ELSE 43200 \div len_ocsp_urls

\* `ctx.model.url_index += 1`, back to 0 at the end of the list.
next_url(url_index, len_ocsp_urls) ==
    IF url_index + 1 >= len_ocsp_urls THEN 0 ELSE url_index + 1

\* A variant of the handler's choice to remove the staple file: it never does.
keeps_staple(kind) == FALSE

\* The clause of the three fatal errors removes the staple file for
\* CertValidationError only.
deletes_staple(kind) == kind = "CertValidationError"

\* A variant of the last clause that retries the context after a minute.
retry_uncaught(kind) == 60

\* The delay the clauses without a cadence pass to ctx.reschedule: none.
no_retry(kind) == NoDelay

\* ocsp_except_handle for an exception of class `kind` with message `exc`,
\* entered with a context (has_ctx) whose exception state is tc and whose
\* model has the given url_index and number of URLs.  Entered without a
\* context (ctx=None), every clause that uses ctx raises AttributeError.
ocsp_except_handle(kind, exc, has_ctx, tc, url_index, len_ocsp_urls) ==
    LET counted == set_last_exception(tc, exc)
        err_count == counted.last_exception_count
        uses_ctx == kind \in {"CertFileAccessError", "OCSPAdderBadResponse",
                              "CertValidationError", "OCSPBadResponse", "network"}
    IN  IF uses_ctx /\ ~has_ctx
        THEN [Handled(tc, url_index, NoDelay, FALSE) EXCEPT !.raised = "AttributeError"]
        ELSE IF kind \in {"CertFileAccessError", "OCSPAdderBadResponse"}
        THEN Handled(counted, url_index, cadence_giving_up(err_count), FALSE)
        ELSE IF kind = "SocketError"
        THEN Handled(tc, url_index, no_retry(kind), FALSE)
        ELSE IF kind \in {"RenewalRequirementMissing", "CertValidationError",
                          "CertParsingError"}
        THEN Handled(tc, url_index, no_retry(kind), deletes_staple(kind))
        ELSE IF kind = "OCSPBadResponse"
        THEN Handled(counted, url_index, cadence_bad_response(err_count), FALSE)
        ELSE IF kind = "network"
        THEN Handled(counted, next_url(url_index, len_ocsp_urls),
                     cadence_network(err_count, len_ocsp_urls), FALSE)
        ELSE Handled(tc, url_index, no_retry(kind), FALSE)

\* ------------------------------------------------- the state machine

\* Entries held by the deadline table and the stage queues together.
Entries(S) ==
    Cardinality(DOMAIN S.by_context)
    + Len(S.queues["parse"]) + Len(S.queues["renew"]) + Len(S.queues["proxy-add"])

\* No list of the reverse maps is longer than the bound on the entries (the
\* lists are as long as the forward map is large unless an operation was cut
\* short by an exception).
ListsWithinBounds(S) ==
    /\ \A q \in DOMAIN S.by_queue : Len(S.by_queue[q]) <= MaxEntries
    /\ \A s \in DOMAIN S.by_subject : Len(S.by_subject[s]) <= MaxEntries

\* The numbers of K as a list in ascending order.
RECURSIVE Ascending(_)
Ascending(K) ==
    IF K = {} THEN << >>
    ELSE LET least == CHOOSE k \in K : \A x \in K : k <= x
         IN  <<least>> \o Ascending(K \ {least})

\* The keys of S.schedule in insertion order: the keys that stay keep their
\* order, a key the operation created comes last (no operation creates two).
KeysNext(S) ==
    SelectSeq(schedule_keys, LAMBDA k : k \in DOMAIN S.schedule)
    \o Ascending({k \in DOMAIN S.schedule : ~InList(schedule_keys, k)})

\* The scheduler's fields become S.
Apply(S) ==
    /\ schedule' = S.schedule
    /\ schedule_keys' = KeysNext(S)
    /\ scheduled_by_context' = S.by_context
    /\ scheduled_by_queue' = S.by_queue
    /\ scheduled_by_subject' = S.by_subject
    /\ queues' = S.queues

\* History: the pending contexts of each queue in the order of the add_task
\* calls that scheduled them; `c` is the context this step scheduled, or NoCtx.
AddedOrderNext(S, c) ==
    [q \in QueueNames |->
        SelectSeq(added_order[q], LAMBDA x : x \in DOMAIN S.by_context /\ x # c)
        \o (IF c # NoCtx /\ TaskNameOf(c) = q /\ c \in DOMAIN S.by_context
            THEN <<c>> ELSE << >>)]

\* History: the last operation, what it returned or did with the context it
\* was given (out), how many contexts it took out of the deadline table (n) and
\* how many of those were already due when they were scheduled (n_late).
Last(op, out, n, n_late) == [op |-> op, out |-> out, n |-> n, n_late |-> n_late]

\* History: the pending contexts whose deadline was already <= now when
\* add_task scheduled them; `c` is the context this step scheduled, or NoCtx.
LateNext(S, c) ==
    {x \in late \ {c} : x \in DOMAIN S.by_context}
    \cup (IF c # NoCtx /\ c \in DOMAIN S.by_context /\ S.by_context[c] <= now
          THEN {c} ELSE {})

\* A certificate file the finder has not seen: no CertModel in the mapping.
\* Of a CertModel the record keeps the number of ocsp_urls and url_index; of
\* the disk, what <filename>.ocsp holds.
NoModel ==
    [known |-> FALSE, ocsp_urls |-> 0, url_index |-> 0, ocsp_file |-> "missing",
     ocsp_staple |-> "None"]

\* The certificate files of the configured directories that come and go.
CertFiles == {"d1/a.pem", "d2/b.pem"}

\* A certificate file that is not on the disk.
NoFile == [exists |-> FALSE, mtime |-> 0]

\* A CertModel object that does not exist.
NoRecord == 0
NoCertModel == [filename |-> "", modtime |-> 0]

\* refresh_interval and the steps of the finder's clock: the clock counts
\* half seconds, so that a refresh can take a time that is not a whole number
\* of seconds.
Second == 2
RefreshInterval == 2 * Second
MaxTook == RefreshInterval + 1

\* The seconds after which a failed renew or proxy-add task of the finder's
\* certificates is tried again.
RetryAfter == 3600

\* The finder thread at the head of `while not self.stop` in run(), before
\* the first refresh.  `clock` is time.time() - self.last_refresh, `took` the
\* time the last refresh took, `cycles` whether a refresh has started (0 or 1).
\* stapled.MAX_RESTART_THREADS
MAX_RESTART_THREADS == 3

\* The names of the threads __init__ spawns, in its order, with one renewer.
ThreadNames == <<"scheduler", "proxy-adder", "renewer-00", "parser", "finder">>

\* The main thread at the first pass of monitor_threads. A thread is known by
\* its name and its restart count: no two threads are spawned with the same.
SupervisorStarts ==
    [all_threads |-> [i \in DOMAIN ThreadNames |-> [name |-> ThreadNames[i], restarted |-> 0]],
     alive |-> {[name |-> ThreadNames[i], restarted |-> 0] : i \in DOMAIN ThreadNames},
     stopping |-> {},
     stop |-> FALSE,
     pc |-> "monitor"]

\* The adder thread between two tasks, its socket opened by __init__.
AdderIdle ==
    [task |-> "idle", key |-> "d1", socks |-> [k \in {"d1", "d2"} |-> "connected"],
     stack |-> << >>, response |-> "none", swallowed |-> FALSE, raised |-> "none"]

FinderStarts ==
    [pc |-> "loop", stop |-> FALSE, sleep_time |-> 0, clock |-> 0, took |-> 0,
     cycles |-> 0]

\* History of a context that no network error has rescheduled: the delay of
\* its last network error, and per URL how many requests to it ended in a
\* network error that was rescheduled with that delay.
NotTried == [delay |-> NoDelay, times |-> [i \in 0..(MaxUrls - 1) |-> 0]]

\* The same after a network error of a request to URL url_index that the
\* handler rescheduled after `delay` seconds.
TriedNext(t, url_index, delay) ==
    IF t.delay = delay
    THEN [t EXCEPT !.times[url_index] = @ + 1]
    ELSE [delay |-> delay, times |-> [i \in 0..(MaxUrls - 1) |-> IF i = url_index THEN 1 ELSE 0]]

\* History of a context that has not failed: the number of its failures.
NotFailed == 0

\* History before the handler ran for the first time.
NothingHandled ==
    [ctx |-> NoCtx, kind |-> "none", exc |-> NoException, err_count |-> 0,
     delay |-> NoDelay, delete_ocsp |-> FALSE, raised |-> "none"]

\* The scheduler thread between two passes of _run (in time.sleep).
Asleep == [pc |-> "sleep", todo |-> << >>, items |-> << >>]

\* unique() has not been called.
NoCall ==
    [seq |-> [type |-> "list", items |-> << >>], preserve_order |-> TRUE, calls |-> 0,
     result |-> [type |-> "none", items |-> << >>]]

\* Nothing is counted: the history stays as it is.
NotCounting ==
    [counting |-> FALSE, found_with |-> [s \in Subjects |-> "none"],
     parsed |-> [s \in Subjects |-> "none"], fetched |-> [s \in Subjects |-> 0],
     sent |-> [s \in Subjects |-> 0], not_done |-> [q \in QueueNames |-> 0]]

Counting == [NotCounting EXCEPT !.counting = TRUE]

InitDaemon ==
    /\ now = 0
    /\ schedule = << >>
    /\ schedule_keys = << >>
    /\ scheduled_by_context = << >>
    /\ scheduled_by_queue = [q \in QueueNames |-> << >>]
    /\ scheduled_by_subject = << >>
    /\ queues = [q \in QueueNames |-> << >>]
    /\ worker = [w \in Workers |-> NoCtx]
    /\ added_order = [q \in QueueNames |-> << >>]
    /\ late = {}
    /\ last = Last("init", "none", 0, 0)
    /\ sched_thread = Asleep
    /\ task_contexts = [c \in TaskContexts |-> NewTaskContext]
    /\ models = [s \in Subjects |-> NoModel]
    /\ finder = "running"
    /\ failed = [c \in TaskContexts |-> NotFailed]
    /\ tried = [c \in TaskContexts |-> NotTried]
    /\ handled = NothingHandled
    /\ files = [f \in CertFiles |-> NoFile]
    /\ model_cache = << >>
    /\ cert_models = [r \in Records |-> NoCertModel]
    /\ finder_thread = FinderStarts
    /\ adder = AdderIdle
    /\ supervisor = SupervisorStarts

Init == InitDaemon /\ counts = NotCounting /\ uniq = NoCall

\* The same start with the history of the commands and of task_done kept.
InitCounting == InitDaemon /\ counts = Counting /\ uniq = NoCall

\* Whether the context is held somewhere: in the deadline table, on a stage
\* queue or by a worker.  Such a context has been through add_task, which set
\* its .scheduler attribute.
Held(c) ==
    \/ c \in DOMAIN scheduled_by_context
    \/ \E q \in QueueNames : InList(queues[q], c)
    \/ \E w \in Workers : worker[w] = c

\* The effect of scheduler.add_task(ctx) with ctx.sched_time = st.  The calls
\* are kept within the bounds: at most MaxEntries entries, and no deadline
\* beyond the clock's last instant.
AddTaskCall(c, st) ==
    \E S \in {add_task(Sched, c, st, now)} :
      \E scheduled \in {IF S.queues = queues /\ c \in DOMAIN S.by_context
                        THEN c ELSE NoCtx} :
        /\ Entries(S) <= MaxEntries
        /\ ListsWithinBounds(S)
        /\ Truthy(st) => Deadline(st, now) <= MaxTime
        /\ Apply(S)
        /\ added_order' = AddedOrderNext(S, scheduled)
        /\ late' = LateNext(S, scheduled)
        /\ last' = Last("add_task",
                         IF scheduled = NoCtx THEN "queued"
                         ELSE IF c \in DOMAIN scheduled_by_context THEN "rescheduled"
                         ELSE "scheduled", 0, 0)
        /\ UNCHANGED <<now, worker, daemon_vars>>

\* A producer passes a context that is held nowhere (a new context, or one
\* whose work is over) to add_task.
AddTask(c, st) ==
    /\ ~Held(c)
    /\ AddTaskCall(c, st)

\* ctx.reschedule(st) of a held context (or add_task with it again): sets
\* ctx.sched_time and calls ctx.scheduler.add_task(ctx).  On a context that
\* was never added, reschedule raises AttributeError and changes nothing here.
Reschedule(c, st) ==
    /\ Held(c)
    /\ AddTaskCall(c, st)

CancelTask(c) ==
    \E r \in {cancel_task(Sched, c)} :
        /\ Apply(r.S)
        /\ added_order' = AddedOrderNext(r.S, NoCtx)
        /\ late' = LateNext(r.S, NoCtx)
        /\ last' = Last("cancel_task", IF r.ret THEN "True" ELSE "False", 0, 0)
        /\ UNCHANGED <<now, worker, daemon_vars>>

CancelBySubject(subject) ==
    \E S \in {cancel_by_subject(Sched, subject)} :
        /\ Apply(S)
        /\ added_order' = AddedOrderNext(S, NoCtx)
        /\ late' = LateNext(S, NoCtx)
        /\ last' = Last("cancel_by_subject", "none",
                         Cardinality(DOMAIN scheduled_by_context \ DOMAIN S.by_context), 0)
        /\ UNCHANGED <<now, worker, daemon_vars>>

\* The scheduler's fields become S, the outcome of a dispatch pass.
Dispatched(S) ==
    /\ Apply(S)
    /\ added_order' = AddedOrderNext(S, NoCtx)
    /\ late' = LateNext(S, NoCtx)
    /\ last' = Last("tick", "none",
                     Cardinality(DOMAIN scheduled_by_context \ DOMAIN S.by_context),
                     Cardinality(late \ DOMAIN S.by_context))
    /\ UNCHANGED <<now, worker, daemon_vars>>

\* One pass of the scheduler thread's loop, _run(), on any of the interpreters
\* setup.py lists: the due keys come in any order.
Tick == \E S \in run(Sched, now) : Dispatched(S)

\* One pass of _run() where iterating the dict yields the keys in insertion
\* order (CPython 3.6 and later).
TickInsertionOrder ==
    \E S \in {run_in_order(Sched,
                            SelectSeq(schedule_keys, LAMBDA x : x \in DueKeys(Sched, now)),
                            1)} :
        Dispatched(S)

\* An idle worker takes the next context of a stage queue.
GetTask(w, name) ==
    /\ worker[w] = NoCtx
    /\ queues[name] # << >>
    /\ \E r \in {get_task(Sched, name)} :
           /\ Apply(r.S)
           /\ worker' = [worker EXCEPT ![w] = r.ret]
    /\ last' = Last("get_task", "none", 0, 0)
    /\ UNCHANGED <<now, added_order, late, daemon_vars>>

\* The worker is through with its context and calls task_done.
TaskDone(w) ==
    /\ worker[w] # NoCtx
    /\ worker' = [worker EXCEPT ![w] = NoCtx]
    /\ last' = Last("task_done", "none", 0, 0)
    /\ UNCHANGED <<now, schedule, schedule_keys, scheduled_by_context,
                   scheduled_by_queue, scheduled_by_subject, queues, added_order, late,
                   daemon_vars>>

\* The clock advances.
AdvanceTime ==
    /\ now < MaxTime
    /\ now' = now + 1
    /\ last' = Last("advance", "none", 0, 0)
    /\ UNCHANGED <<schedule, schedule_keys, scheduled_by_context, scheduled_by_queue,
                   scheduled_by_subject, queues, worker, added_order, late, daemon_vars>>

Next ==
    \/ \E c \in Ctx, st \in SchedTimes : AddTask(c, st)
    \/ \E c \in Ctx, st \in SchedTimes : Reschedule(c, st)
    \/ \E c \in Ctx : CancelTask(c)
    \/ \E subject \in Subjects : CancelBySubject(subject)
    \/ Tick
    \/ \E w \in Workers, name \in QueueNames : GetTask(w, name)
    \/ \E w \in Workers : TaskDone(w)
    \/ AdvanceTime

Spec == Init /\ [][Next]_vars

\* The same program on an interpreter whose dicts keep insertion order.
NextInsertionOrder ==
    \/ \E c \in Ctx, st \in SchedTimes : AddTask(c, st)
    \/ \E c \in Ctx, st \in SchedTimes : Reschedule(c, st)
    \/ \E c \in Ctx : CancelTask(c)
    \/ \E subject \in Subjects : CancelBySubject(subject)
    \/ TickInsertionOrder
    \/ \E w \in Workers, name \in QueueNames : GetTask(w, name)
    \/ \E w \in Workers : TaskDone(w)
    \/ AdvanceTime

SpecInsertionOrder == Init /\ [][NextInsertionOrder]_vars

\* ------------------------------------------------- the scheduler thread, statement by statement
\* SchedulerThread takes no lock: add_task, cancel_task and cancel_by_subject
\* run on the callers' threads while the scheduler thread is inside _run.  Here
\* _run is taken apart at its statements, and the callers' operations (each
\* still in one piece) run between them; the program has these interleavings
\* and more.

\* The orders in which a list can hold the keys K.
RECURSIVE Orders(_)
Orders(K) ==
    IF K = {} THEN {<< >>}
    ELSE UNION {{<<k>> \o rest : rest \in Orders(K \ {k})} : k \in K}

\* Where the scheduler thread goes on after a time slot's list is through.
AfterSlot(todo) ==
    [pc |-> IF todo = << >> THEN "sleep" ELSE "todo", todo |-> todo, items |-> << >>]

\* The scheduler's fields become S in a step of the scheduler thread.
RunStep(S) ==
    /\ Apply(S)
    /\ added_order' = AddedOrderNext(S, NoCtx)
    /\ late' = LateNext(S, NoCtx)
    /\ last' = Last("run", S.exc,
                     Cardinality(DOMAIN scheduled_by_context \ DOMAIN S.by_context), 0)
    /\ UNCHANGED <<now, worker, pipeline_vars, finder_vars>>

\* `todo = [x for x in self.schedule if x <= now]`: the copy of the due keys
\* (a pass that finds none changes nothing and is left out).
RunCopyKeys ==
    /\ sched_thread.pc = "sleep"
    /\ \E todo \in Orders(DueKeys(Sched, now)) :
         /\ todo # << >>
         /\ sched_thread' = [pc |-> "todo", todo |-> todo, items |-> << >>]
    /\ RunStep(Sched)

\* `items = self.schedule.pop(sched_time)` for the next key of todo; pop
\* raises KeyError for a key that is gone, which ends the thread.
RunPopSlot ==
    /\ sched_thread.pc = "todo"
    /\ \E sched_time \in {Head(sched_thread.todo)} :
         IF sched_time \notin DOMAIN schedule
         THEN /\ sched_thread' = [sched_thread EXCEPT !.pc = "dead"]
              /\ RunStep([Sched EXCEPT !.exc = "KeyError"])
         ELSE /\ sched_thread' =
                   IF schedule[sched_time] = << >>
                   THEN AfterSlot(Tail(sched_thread.todo))
                   ELSE [pc |-> "items", todo |-> Tail(sched_thread.todo),
                         items |-> schedule[sched_time]]
              /\ RunStep([Sched EXCEPT !.schedule = DictDel(@, sched_time)])

\* The body of `for ctx in items` for the next context of the popped list; an
\* exception it raises is caught nowhere in run() and ends the thread.
RunQueueCtx ==
    /\ sched_thread.pc = "items"
    /\ \E S \in {run_ctx(Sched, Head(sched_thread.items))} :
         /\ sched_thread' =
              IF S.exc # "none" THEN [sched_thread EXCEPT !.pc = "dead"]
              ELSE IF Tail(sched_thread.items) = << >> THEN AfterSlot(sched_thread.todo)
              ELSE [sched_thread EXCEPT !.items = Tail(@)]
         /\ RunStep(S)

\* The scheduler thread has not been ended by an exception.
Running == sched_thread.pc # "dead"

\* The steps of the producers' threads and of the scheduler thread.  The
\* workers that dequeue are left out (the stage queues are thread-safe and the
\* deadline table is not theirs), and so is what the producers do after the
\* scheduler thread has ended: nothing is dispatched any more.
NextThreads ==
    \/ \E c \in Ctx, st \in SchedTimes : Running /\ AddTask(c, st)
    \/ \E c \in Ctx : Running /\ CancelTask(c)
    \/ \E subject \in Subjects : Running /\ CancelBySubject(subject)
    \/ RunCopyKeys
    \/ RunPopSlot
    \/ RunQueueCtx
    \/ Running /\ AdvanceTime

SpecThreads == Init /\ [][NextThreads]_vars

\* ------------------------------------------------- the pipeline
\* The finder, the parser, the renewer and the adder around one scheduler.
\* A worker takes a context with GetTask and then runs the body of its loop
\* for it in one step: the task inside ocsp_except_handle, task_done, and the
\* tasks that follow.

\* What <filename>.ocsp holds: nothing ("missing"), or a file that cannot be
\* read, that is empty, that is no OCSP response, a response whose status is
\* not good, one that is past valid_until, one that fails validation, one that
\* is valid for less than minimum_validity, or one that is valid for longer.
StapleContents ==
    {"unreadable", "empty", "unparsable", "not good", "expired", "invalid", "expiring",
     "valid"}

\* Seconds from now to valid_until - minimum_validity of a staple that is
\* valid for longer than minimum_validity.
RenewAfter == 86400

\* A variant of recycle_staple that never keeps the staple file.
recycle_staple_never(ocsp_file) == IF ocsp_file = "unparsable" THEN "raise" ELSE "False"

\* CertModel.recycle_staple(minimum_validity) for the staple file's state:
\* "True", "False", or "raise" where OCSPResponse.load(raw_staple) and
\* OCSPResponseParser(staple), which no try block encloses, cannot load the
\* data.
recycle_staple(ocsp_file) ==
    IF ocsp_file = "missing" THEN "False"
    ELSE IF ocsp_file = "unreadable" THEN "False"
    ELSE IF ocsp_file = "empty" THEN "False"
    ELSE IF ocsp_file = "unparsable" THEN "raise"
    ELSE IF ocsp_file \in {"not good", "expired"} THEN "False"
    ELSE IF ocsp_file = "invalid" THEN "False"
    ELSE IF ocsp_file = "expiring" THEN "False"
    ELSE "True"

\* self.ocsp_staple after recycle_staple: the staple of the file when it is
\* good, not expired and has passed _validate_cert, else what it was.
recycled_staple(ocsp_file, ocsp_staple) ==
    IF ocsp_file \in {"expiring", "valid"} THEN "validated" ELSE ocsp_staple

\* self.ocsp_staple after renew_ocsp_staple raised an exception of class
\* kind: `self.ocsp_staple = self._check_ocsp_response(...)` is assigned
\* before `self._validate_cert(self.ocsp_staple)` is called, which raises
\* CertValidationError.
fetched_staple(kind, ocsp_staple) ==
    IF kind = "CertValidationError" THEN "not validated" ELSE ocsp_staple

\* The messages str(exc) of the exceptions that a renew task raises and the
\* handler tells apart: a network error, the responses "revoked" and
\* "unknown" of _check_ocsp_response, and the errors without a retry.
RenewFailures ==
    {<<"network", "timeout">>,
     <<"OCSPBadResponse", "revoked">>, <<"OCSPBadResponse", "unknown status">>,
     <<"RenewalRequirementMissing", "requirement missing">>,
     <<"CertValidationError", "staple invalid">>,
     <<"other", "uncaught">>}

\* The same for a parse task (parse_crt_file) and for a proxy-add task
\* (add_staple: "Bad HAProxy response: ...").
ParseFailures ==
    {<<"CertParsingError", "no chain">>, <<"CertValidationError", "chain invalid">>,
     <<"other", "uncaught">>}

ProxyAddFailures ==
    {<<"OCSPAdderBadResponse", "bad response">>, <<"other", "uncaught">>}

\* OCSPTaskContext(task_name, model): a context object that is in use nowhere
\* (the least one; none when all the objects of the bound are in use).
FreshCtx(name, subject) ==
    LET free == {c \in TaskContexts :
                   TaskNameOf(c) = name /\ SubjectOf(c) = subject /\ ~Held(c)}
    IN  {c \in free : \A x \in free : c <= x}

\* Whether the body of the worker's loop has sent a command to the admin
\* socket: add_staple sends before it looks at the reply.
sends_command(op, out) == op = "proxy-add" /\ out \in {"done", "OCSPAdderBadResponse"}

\* A variant of calls_task_done where every worker calls task_done after
\* its with block.
calls_task_done_after(op, out) == TRUE

\* Whether the body of the worker's loop has called task_done. The parser
\* and the adder call it after the with block, whatever happened inside; the
\* renewer calls it inside the with block, after renew_ocsp_staple.
calls_task_done(op, out) == op # "renew" \/ out = "done"

\* The contexts the workers are through with in the step to `workers`.
Finished(workers) == {worker[w] : w \in {x \in Workers : worker[x] # workers[x]}}

\* The history after the body of a worker's loop has run for the contexts
\* `finished` (or the finder has found a file: op "find"): the model's
\* staple file as the finder found it, how the parse task ended, the renew
\* tasks run (each one asks the responder unless it fails before), the
\* commands sent and the tasks whose task_done was left out.
Counted(cnt, op, out, finished) ==
    IF ~cnt.counting THEN cnt
    ELSE [cnt EXCEPT
            !.found_with = [s \in Subjects |->
                              IF models'[s].known /\ ~models[s].known
                              THEN models'[s].ocsp_file ELSE @[s]],
            !.parsed = [s \in Subjects |->
                          IF op = "parse" /\ \E c \in finished : SubjectOf(c) = s
                          THEN out ELSE @[s]],
            !.fetched = [s \in Subjects |->
                           @[s] + Cardinality({c \in finished :
                                                 SubjectOf(c) = s /\ op = "renew"})],
            !.sent = [s \in Subjects |->
                        @[s] + Cardinality({c \in finished :
                                              SubjectOf(c) = s /\ sends_command(op, out)})],
            !.not_done = [q \in QueueNames |->
                            @[q] + Cardinality({c \in finished :
                                                  TaskNameOf(c) = q
                                                  /\ ~calls_task_done(op, out)})]]

\* The scheduler's fields become S in a step of the pipeline; `scheduled` is
\* the context the step put into the deadline table, or NoCtx.
PipelineStep(S, scheduled, workers, op, out) ==
    /\ Apply(S)
    /\ added_order' = AddedOrderNext(S, scheduled)
    /\ late' = LateNext(S, scheduled)
    /\ worker' = workers
    /\ last' = Last(op, out, 0, 0)
    /\ counts' = Counted(counts, op, out, Finished(workers))
    /\ UNCHANGED <<now, sched_thread, finder_vars, adder, supervisor, uniq>>

\* The worker is back at get_task.
Idle(w) == [worker EXCEPT ![w] = NoCtx]

\* The task of worker w raised an exception of class `kind` with message exc
\* inside `with ocsp_except_handle(context)`, the model being mdl by then:
\* the handler runs, ctx.reschedule(delay) is add_task with the int delay.
\* A context that is not rescheduled is referred to nowhere any more: the
\* object is gone, and its place is that of a new object.
Raised(w, op, out, kind, exc, mdl) ==
    \E c \in {worker[w]} :
    \E h \in {ocsp_except_handle(kind, exc, TRUE, task_contexts[c],
                                 mdl.url_index, mdl.ocsp_urls)} :
    \E S \in {IF h.delay = NoDelay THEN Sched
              ELSE add_task(Sched, c, RelTime(h.delay), now)} :
        /\ task_contexts' = [task_contexts EXCEPT ![c] =
                               IF h.delay = NoDelay THEN NewTaskContext ELSE h.tc]
        /\ models' = [models EXCEPT ![SubjectOf(c)] =
                        [mdl EXCEPT !.url_index = h.url_index,
                                    !.ocsp_file = IF h.delete_ocsp THEN "missing" ELSE @]]
        /\ failed' = [failed EXCEPT ![c] = IF h.delay = NoDelay THEN NotFailed ELSE @ + 1]
        /\ tried' = [tried EXCEPT ![c] =
                       IF h.delay = NoDelay THEN NotTried
                       ELSE IF kind = "network" THEN TriedNext(@, mdl.url_index, h.delay)
                       ELSE @]
        /\ handled' = [ctx |-> c, kind |-> kind, exc |-> exc,
                       err_count |-> h.tc.last_exception_count, delay |-> h.delay,
                       delete_ocsp |-> h.delete_ocsp, raised |-> h.raised]
        /\ finder' = finder
        /\ PipelineStep(S, IF h.delay = NoDelay THEN NoCtx ELSE c, Idle(w), op, out)

\* The failures of one context are followed up to the bound.
MayFail(c) == task_contexts[c].last_exception_count < MaxFailures

\* CertFinderThread, one file of refresh(): a certificate file that is not in
\* the mapping gets a CertModel and a parse task.  CertModel(filename) raises
\* CertFileAccessError when it cannot read the file and OSError (getmtime)
\* when the file is gone; refresh() runs in ocsp_except_handle() without a
\* context, and an exception that leaves the handler ends the thread.
FindNewCert(subject) ==
    /\ finder = "running"
    /\ ~models[subject].known
    /\ FreshCtx("parse", subject) # {}
    /\ \/ \E c \in FreshCtx("parse", subject), ocsp_file \in {"missing"} \cup StapleContents :
          \E S \in {add_task(Sched, c, None, now)} :
            /\ models' = [models EXCEPT ![subject] =
                            [known |-> TRUE, ocsp_urls |-> 0, url_index |-> 0,
                             ocsp_file |-> ocsp_file, ocsp_staple |-> "None"]]
            /\ task_contexts' = [task_contexts EXCEPT ![c] = NewTaskContext]
            /\ failed' = [failed EXCEPT ![c] = NotFailed]
            /\ UNCHANGED <<finder, handled, tried>>
            /\ PipelineStep(S, NoCtx, worker, "find", "found")
       \/ \E kind \in {"CertFileAccessError", "other"} :
          \E h \in {ocsp_except_handle(kind, "no access", FALSE, NewTaskContext, 0, 0)} :
            /\ finder' = IF h.raised = "none" THEN "running" ELSE "dead"
            /\ handled' = [ctx |-> NoCtx, kind |-> kind, exc |-> "no access",
                           err_count |-> 0, delay |-> h.delay,
                           delete_ocsp |-> h.delete_ocsp, raised |-> h.raised]
            /\ UNCHANGED <<task_contexts, models, failed, tried>>
            /\ PipelineStep(Sched, NoCtx, worker, "find", kind)

\* CertParserThread.run for the context the worker took: parse_certificate
\* (parse_crt_file, recycle_staple, add_task of one new renew context), then
\* task_done.  Whether --no-recycle is set is taken either way.
ParseTask(w) ==
    /\ worker[w] # NoCtx
    /\ TaskNameOf(worker[w]) = "parse"
    /\ \E c \in {worker[w]} :
       \E s \in {SubjectOf(c)} :
         \/ \E f \in ParseFailures : Raised(w, "parse", f[1], f[1], f[2], models[s])
         \/ \E len_ocsp_urls \in 1..MaxUrls, no_recycle \in BOOLEAN :
            \E mdl \in {[models[s] EXCEPT
                           !.ocsp_urls = len_ocsp_urls,
                           !.ocsp_staple = IF no_recycle THEN @
                                           ELSE recycled_staple(models[s].ocsp_file, @)]} :
            \E recycled \in {IF no_recycle THEN "False" ELSE recycle_staple(mdl.ocsp_file)} :
              IF recycled = "raise"
              THEN Raised(w, "parse", "recycle_staple raised", "other", "cannot load", mdl)
              ELSE
                \E new \in FreshCtx("renew", s) :
                \E st \in {IF recycled = "True" THEN AbsTime(now + RenewAfter) ELSE None} :
                \E S \in {add_task(Sched, new, st, now)} :
                  /\ task_contexts' = [task_contexts EXCEPT ![new] = NewTaskContext]
                  /\ failed' = [failed EXCEPT ![new] = NotFailed]
                  /\ models' = [models EXCEPT ![s] = mdl]
                  /\ UNCHANGED <<finder, handled, tried>>
                  /\ PipelineStep(S, IF Truthy(st) THEN new ELSE NoCtx, Idle(w), "parse",
                                  IF no_recycle THEN "queued, recycling disabled"
                                  ELSE IF Truthy(st) THEN "scheduled" ELSE "queued")

\* A variant of schedule_renew that asks for the next renewal at once.
schedule_renew_asap(S, new, t) == add_task(S, new, None, t)

\* OCSPRenewerThread.schedule_renew(model) at time t with the new context it
\* makes: add_task at model.ocsp_staple.valid_until - minimum_validity.
schedule_renew(S, new, t) == add_task(S, new, AbsTime(t + RenewAfter), t)

\* OCSPRenewerThread.run for the context the worker took: renew_ocsp_staple
\* (which writes the staple file), task_done, schedule_renew with a new renew
\* context at valid_until - minimum_validity, and a new proxy-add context.
RenewTask(w) ==
    /\ worker[w] # NoCtx
    /\ TaskNameOf(worker[w]) = "renew"
    /\ \E c \in {worker[w]} :
       \E s \in {SubjectOf(c)} :
         \/ \E f \in RenewFailures :
              /\ MayFail(c)
              /\ Raised(w, "renew", f[1], f[1], f[2],
                        [models[s] EXCEPT !.ocsp_staple = fetched_staple(f[1], @)])
         \/ \E new \in FreshCtx("renew", s), proxy_add \in FreshCtx("proxy-add", s) :
            \E S \in {add_task(schedule_renew(Sched, new, now), proxy_add, None, now)} :
              /\ task_contexts' = [task_contexts EXCEPT ![c] = NewTaskContext,
                                                        ![new] = NewTaskContext,
                                                        ![proxy_add] = NewTaskContext]
              /\ failed' = [failed EXCEPT ![c] = NotFailed, ![new] = NotFailed,
                                          ![proxy_add] = NotFailed]
              /\ tried' = [tried EXCEPT ![c] = NotTried]
              /\ models' = [models EXCEPT ![s].ocsp_file = "valid",
                                          ![s].ocsp_staple = "validated"]
              /\ UNCHANGED <<finder, handled>>
              /\ PipelineStep(S, new, Idle(w), "renew", "done")

\* OCSPAdder.run for the context the worker took: add_staple, task_done.
ProxyAddTask(w) ==
    /\ worker[w] # NoCtx
    /\ TaskNameOf(worker[w]) = "proxy-add"
    /\ \/ \E f \in ProxyAddFailures :
            /\ MayFail(worker[w])
            /\ Raised(w, "proxy-add", f[1], f[1], f[2], models[SubjectOf(worker[w])])
       \/ /\ task_contexts' = [task_contexts EXCEPT ![worker[w]] = NewTaskContext]
          /\ failed' = [failed EXCEPT ![worker[w]] = NotFailed]
          /\ UNCHANGED <<models, finder, handled, tried>>
          /\ PipelineStep(Sched, NoCtx, Idle(w), "proxy-add", "done")

\* The table S with every deadline d seconds nearer.
Nearer(S, d) ==
    [S EXCEPT !.schedule = [t \in {x - d : x \in DOMAIN S.schedule} |-> S.schedule[t + d]],
              !.by_context = [c \in DOMAIN S.by_context |-> S.by_context[c] - d]]

\* Time passes until the next deadline; the scheduler thread, which looks at
\* the table every second, has dispatched what was due before.  The pipeline
\* counts the seconds from the current instant: `now` stays what it is and the
\* deadlines come nearer instead.
SleepUntilDue ==
    /\ DOMAIN schedule # {}
    /\ DueKeys(Sched, now) = {}
    /\ \E t \in {CHOOSE t \in DOMAIN schedule : \A x \in DOMAIN schedule : t <= x} :
       \E S \in {Nearer(Sched, t - now)} :
         /\ schedule' = S.schedule
         /\ scheduled_by_context' = S.by_context
         /\ schedule_keys' = [i \in 1..Len(schedule_keys) |-> schedule_keys[i] - (t - now)]
    /\ last' = Last("advance", "none", 0, 0)
    /\ UNCHANGED <<now, scheduled_by_queue, scheduled_by_subject, queues, worker,
                   added_order, late, daemon_vars>>

NextPipeline ==
    \/ \E subject \in Subjects : FindNewCert(subject)
    \/ \E w \in Workers, name \in QueueNames : GetTask(w, name)
    \/ \E w \in Workers : ParseTask(w)
    \/ \E w \in Workers : RenewTask(w)
    \/ \E w \in Workers : ProxyAddTask(w)
    \/ Tick
    \/ SleepUntilDue

SpecPipeline == Init /\ [][NextPipeline]_vars

\* ------------------------------------------------- the start of the daemon
\* What happens from the start until the clock moves on: the finder finds
\* the certificate file, with or without a staple file next to it, and the
\* workers do their tasks, which may fail; what has a deadline in the future
\* stays in the deadline table.
NextStart ==
    \/ \E subject \in Subjects : FindNewCert(subject)
    \/ \E w \in Workers, name \in QueueNames : GetTask(w, name)
    \/ \E w \in Workers : ParseTask(w)
    \/ \E w \in Workers : RenewTask(w)
    \/ \E w \in Workers : ProxyAddTask(w)
    \/ Tick

SpecStart == InitCounting /\ [][NextStart]_vars

\* Every thread gets its turn.
SpecStartFair ==
    /\ SpecStart
    /\ WF_vars(\E subject \in Subjects : FindNewCert(subject))
    /\ WF_vars(\E w \in Workers, name \in QueueNames : GetTask(w, name))
    /\ WF_vars(\E w \in Workers : ParseTask(w))
    /\ WF_vars(\E w \in Workers : RenewTask(w))
    /\ WF_vars(\E w \in Workers : ProxyAddTask(w))
    /\ WF_vars(Tick)

\* ------------------------------------------------- CertFinderThread

\* cert_paths: the configured directories, in the order of the configuration.
CertPaths == <<"d1", "d2">>

\* Whether the entry is on the disk.
OnDisk(fs, entry) == entry \notin CertFiles \/ fs[entry].exists

\* os.path.getmtime(entry)
getmtime(fs, entry) == IF entry \in CertFiles THEN fs[entry].mtime ELSE 0

\* os.listdir(path) joined with the path.  Next to the certificate files
\* that come and go, d1 holds a text file and a certificate file that matches
\* a pattern of the ignore list, both always there.
listdir(fs, path) ==
    SelectSeq(IF path = "d1" THEN <<"d1/a.pem", "d1/notes.txt", "d1/old.pem">>
              ELSE <<"d2/b.pem">>,
              LAMBDA entry : OnDisk(fs, entry))

\* os.path.splitext(entry)[1].lstrip(".")
ext(entry) == IF entry = "d1/notes.txt" THEN "txt" ELSE "pem"

\* file_extensions as configured.
file_extensions == {"crt", "pem", "cer"}

\* check_ignore(path) with the ignore list ["old.*"]: fnmatch of the path
\* against "**old.*".
check_ignore(entry) == entry = "d1/old.pem"

\* A variant of the test below that takes every file for a new one.
in_no_models(cache, entry) == FALSE

\* `if entry in self.models: continue`
in_models(cache, entry) == entry \in DOMAIN cache

\* A variant of the comparison below that overlooks a change of one unit.
is_changed_by_two(mtime, modtime) == mtime > modtime + 1

\* `os.path.getmtime(filename) > model.modtime`
is_changed(mtime, modtime) == mtime > modtime

\* What can go wrong in one refresh: nothing; os.listdir of a directory
\* fails; open() of a certificate file fails; a certificate file that was
\* there when the refresh first looked is gone when CertModel() stats it.
NoFailure == [kind |-> "none", at |-> ""]
Failures ==
    {NoFailure}
    \cup {[kind |-> "listdir", at |-> CertPaths[i]] : i \in 1..Len(CertPaths)}
    \cup {[kind |-> k, at |-> f] : k \in {"open", "gone"}, f \in CertFiles}

\* The CertModel objects that something refers to: the model cache, a context
\* in the scheduler's tables, on a stage queue or in a worker's hands.
Referred(S, workers, cache) ==
    {cache[f] : f \in DOMAIN cache}
    \cup {RecordOf(c) : c \in {x \in RecordContexts :
                                 \/ x \in DOMAIN S.by_context
                                 \/ \E t \in DOMAIN S.schedule : InList(S.schedule[t], x)
                                 \/ \E s \in DOMAIN S.by_subject : InList(S.by_subject[s], x)
                                 \/ \E q \in QueueNames : InList(S.by_queue[q], x)
                                 \/ \E q \in QueueNames : InList(S.queues[q], x)
                                 \/ \E w \in Workers : workers[w] = x}}

\* An object of the model stands for one CertModel after the other; the key
\* with the empty list that scheduled_by_subject keeps for a CertModel that
\* nothing else refers to is not a key of the object's next CertModel.
Forgotten(S, referred) ==
    [S EXCEPT !.by_subject =
       [s \in {x \in DOMAIN S.by_subject :
                 \A r \in Records \ referred : x # RecordName(r)} |-> S.by_subject[s]]]

\* The state of a refresh under way: the scheduler's fields S, self.models
\* (cache), the CertModel objects (heap), the objects made in this refresh,
\* the object the last CertModel() call returned (new) and the exception that
\* is propagating (out, "none" while there is none).
Refreshing(S, cache, heap) ==
    [S |-> S, cache |-> cache, heap |-> heap, made |-> {}, new |-> NoRecord,
     out |-> "none"]

\* CertModel(filename, cert_path): getmtime raises OSError when the file is
\* gone, open() failing raises CertFileAccessError; else a new object with the
\* file's name and modification time.  The objects are kept within the bound:
\* out is "bound" when NRecords objects are referred to already.
CertModel(F, fs, failure, filename) ==
    LET free == Records \ (Referred(F.S, worker, F.cache) \cup F.made)
        r == CHOOSE x \in free : \A y \in free : x <= y
    IN  IF failure = [kind |-> "gone", at |-> filename]
        THEN [F EXCEPT !.out = "OSError"]
        ELSE IF failure = [kind |-> "open", at |-> filename]
        THEN [F EXCEPT !.out = "CertFileAccessError"]
        ELSE IF free = {}
        THEN [F EXCEPT !.out = "bound"]
        ELSE [F EXCEPT !.heap[r] = [filename |-> filename,
                                     modtime |-> getmtime(fs, filename)],
                       !.made = @ \cup {r},
                       !.new = r]

\* context = StapleTaskContext(task_name="parse", model=model, sched_time=None)
\* self.scheduler.add_task(context)
add_parse_task(F, r) ==
    [F EXCEPT !.S = add_task(@, ContextOf(r, "parse"), None, now)]

\* self.scheduler.cancel_by_subject(self.models[filename]); self._del_model(filename)
forget(F, filename) ==
    LET S1 == cancel_by_subject(F.S, RecordName(F.cache[filename]))
    IN  IF S1.exc # "none"
        THEN [F EXCEPT !.S = [S1 EXCEPT !.exc = "none"], !.out = S1.exc]
        ELSE [F EXCEPT !.S = S1, !.cache = DictDel(@, filename)]

\* `for filename in deleted` of _update_cached_certs.
RECURSIVE purge_deleted(_, _, _)
purge_deleted(F, deleted, i) ==
    IF i > Len(deleted) \/ F.out # "none"
    THEN F
    ELSE purge_deleted(forget(F, deleted[i]), deleted, i + 1)

\* The body of `for filename in changed` of _update_cached_certs: the tasks of
\* the old model are cancelled, the old model is taken out of self.models, a
\* new model is made and a parse task for it is added.
readd(F, fs, failure, filename) ==
    LET F1 == forget(F, filename)
        F2 == IF F1.out = "none" THEN CertModel(F1, fs, failure, filename) ELSE F1
    IN  IF F2.out = "none" THEN add_parse_task(F2, F2.new) ELSE F2

RECURSIVE readd_changed(_, _, _, _, _)
readd_changed(F, fs, failure, changed, i) ==
    IF i > Len(changed) \/ F.out # "none"
    THEN F
    ELSE readd_changed(readd(F, fs, failure, changed[i]), fs, failure, changed, i + 1)

\* The filenames of self.models in the order the loops go through them.
Filenames(cache) ==
    SelectSeq(<<"d1/a.pem", "d2/b.pem">>, LAMBDA f : f \in DOMAIN cache)

\* _update_cached_certs()
update_cached_certs(F, fs, failure) ==
    LET deleted == SelectSeq(Filenames(F.cache), LAMBDA f : ~OnDisk(fs, f))
        changed == SelectSeq(Filenames(F.cache),
                             LAMBDA f : /\ OnDisk(fs, f)
                                        /\ is_changed(getmtime(fs, f),
                                                      F.heap[F.cache[f]].modtime))
    IN  readd_changed(purge_deleted(F, deleted, 1), fs, failure, changed, 1)

\* The body of `for entry in dirs` of _find_new_certs for an entry that is no
\* directory.
find_entry(F, fs, failure, entry) ==
    IF ext(entry) \notin file_extensions THEN F
    ELSE IF in_models(F.cache, entry) THEN F
    ELSE IF check_ignore(entry) THEN F
    ELSE LET F1 == CertModel(F, fs, failure, entry)
         IN  IF F1.out # "none" THEN F1
             ELSE add_parse_task([F1 EXCEPT !.cache = DictSet(@, entry, F1.new)], F1.new)

RECURSIVE find_entries(_, _, _, _, _)
find_entries(F, fs, failure, dirs, i) ==
    IF i > Len(dirs) \/ F.out # "none"
    THEN F
    ELSE find_entries(find_entry(F, fs, failure, dirs[i]), fs, failure, dirs, i + 1)

\* The body of `for path in paths` of _find_new_certs: an IOError or OSError
\* (of listdir, of getmtime) is logged and the loop goes on with the next path.
find_in_path(F, fs, failure, path) ==
    IF failure = [kind |-> "listdir", at |-> path]
    THEN F
    ELSE LET F1 == find_entries(F, fs, failure, listdir(fs, path), 1)
         IN  IF F1.out = "OSError" THEN [F1 EXCEPT !.out = "none"] ELSE F1

RECURSIVE find_new_certs(_, _, _, _)
find_new_certs(F, fs, failure, i) ==
    IF i > Len(CertPaths) \/ F.out # "none"
    THEN F
    ELSE find_new_certs(find_in_path(F, fs, failure, CertPaths[i]), fs, failure, i + 1)

\* refresh(): _update_cached_certs(), then _find_new_certs(self.cert_paths).
refresh(F, fs, failure) ==
    LET F1 == update_cached_certs(F, fs, failure)
    IN  IF F1.out = "none" THEN find_new_certs(F1, fs, failure, 1) ELSE F1

\* A step of the finder thread or of a worker on one of the finder's models:
\* the scheduler's fields become S, the workers' hands `workers`, self.models
\* becomes cache and the CertModel objects heap; the CertModel objects that
\* nothing refers to are gone, and of one that is not in self.models the
\* modtime, which nothing reads any more, is left out.
FinderStep(S, workers, cache, heap, op, out) ==
    /\ Apply(Forgotten(S, Referred(S, workers, cache)))
    /\ worker' = workers
    /\ model_cache' = cache
    /\ cert_models' = [r \in Records |->
                         IF r \in {cache[f] : f \in DOMAIN cache} THEN heap[r]
                         ELSE IF r \in Referred(S, workers, cache)
                         THEN [heap[r] EXCEPT !.modtime = 0]
                         ELSE NoCertModel]
    /\ last' = Last(op, out, 0, 0)
    /\ UNCHANGED <<now, added_order, late, sched_thread, task_contexts, models, failed,
                   tried, adder, supervisor, counts, uniq>>

\* What run() does after refresh() took `took` half seconds and ended with
\* the exception `out` ("none" for a return): an exception leaves the with
\* block, and the loop starts over unless the handler raised itself; after a
\* return the thread sleeps what is left of refresh_interval, if anything.
after_refresh(t, out, raised, took) ==
    [t EXCEPT !.pc = IF out # "none"
                     THEN (IF raised = "none" THEN "loop" ELSE "dead")
                     ELSE IF took > RefreshInterval THEN "loop" ELSE "sleep",
              !.sleep_time = IF out = "none" /\ took <= RefreshInterval
                             THEN RefreshInterval - took ELSE 0,
              !.clock = took,
              !.took = took,
              !.cycles = 1]

\* One pass of `while not self.stop` in run() up to the sleep: refresh() in
\* ocsp_except_handle() without a context.  The refresh takes `took` half
\* seconds, and the disk does not change under it except for the file that
\* `failure` takes away.
Refresh(failure, took) ==
    /\ finder = "running"
    /\ finder_thread.pc = "loop"
    /\ ~finder_thread.stop
    /\ failure.kind \in {"open", "gone"} => files[failure.at].exists
    /\ \E F \in {refresh(Refreshing(Sched, model_cache, cert_models), files, failure)} :
       \E kind \in {IF F.out = "CertFileAccessError" THEN F.out ELSE "other"} :
       \E h \in {ocsp_except_handle(kind, F.out, FALSE, NewTaskContext, 0, 0)} :
         /\ F.out # "bound"
         /\ Entries(F.S) <= MaxTasks
         /\ files' = IF failure.kind = "gone"
                     THEN [files EXCEPT ![failure.at] = NoFile] ELSE files
         /\ finder_thread' = after_refresh(finder_thread, F.out, h.raised, took)
         /\ finder' = IF F.out # "none" /\ h.raised # "none" THEN "dead" ELSE finder
         /\ handled' = handled
         /\ FinderStep(F.S, worker, F.cache, F.heap, "refresh", F.out)

\* `while sleep_time > 0: if self.stop: break; time.sleep(1); sleep_time -= 1`,
\* one round that sleeps.
SleepSecond ==
    /\ finder_thread.pc = "sleep"
    /\ finder_thread.sleep_time > 0
    /\ ~finder_thread.stop
    /\ finder_thread' = [finder_thread EXCEPT !.sleep_time = @ - Second,
                                              !.clock = @ + Second]
    /\ last' = Last("sleep", "none", 0, 0)
    /\ UNCHANGED <<now, schedule, schedule_keys, scheduled_by_context,
                   scheduled_by_queue, scheduled_by_subject, queues, worker, added_order,
                   late, sched_thread, pipeline_vars, files, model_cache, cert_models>>

\* The sleep loop ends, by its condition or by the break, and the thread is
\* back at `while not self.stop`.
WakeUp ==
    /\ finder_thread.pc = "sleep"
    /\ finder_thread.sleep_time <= 0 \/ finder_thread.stop
    /\ finder_thread' = [finder_thread EXCEPT !.pc = "loop", !.sleep_time = 0]
    /\ last' = Last("wake", "none", 0, 0)
    /\ UNCHANGED <<now, schedule, schedule_keys, scheduled_by_context,
                   scheduled_by_queue, scheduled_by_subject, queues, worker, added_order,
                   late, sched_thread, pipeline_vars, files, model_cache, cert_models>>

\* `while not self.stop` finds the flag set: run() returns.
FinderReturns ==
    /\ finder_thread.pc = "loop"
    /\ finder_thread.stop
    /\ finder_thread' = [finder_thread EXCEPT !.pc = "returned"]
    /\ last' = Last("return", "none", 0, 0)
    /\ UNCHANGED <<now, schedule, schedule_keys, scheduled_by_context,
                   scheduled_by_queue, scheduled_by_subject, queues, worker, added_order,
                   late, sched_thread, pipeline_vars, files, model_cache, cert_models>>

\* The daemon sets the thread's stop flag.
StopFinder ==
    /\ finder_thread.pc \in {"loop", "sleep"}
    /\ ~finder_thread.stop
    /\ finder_thread' = [finder_thread EXCEPT !.stop = TRUE]
    /\ last' = Last("stop", "none", 0, 0)
    /\ UNCHANGED <<now, schedule, schedule_keys, scheduled_by_context,
                   scheduled_by_queue, scheduled_by_subject, queues, worker, added_order,
                   late, sched_thread, pipeline_vars, files, model_cache, cert_models>>

\* The modification times a certificate file can have.
MtimesOf(f) == IF f = "d1/a.pem" THEN 0..MaxMtime ELSE {0}

\* The disk changes between two refreshes: a certificate file is written to a
\* configured directory, written again, or deleted.
DiskStep(fs, op) ==
    /\ files' = fs
    /\ last' = Last(op, "none", 0, 0)
    /\ UNCHANGED <<now, schedule, schedule_keys, scheduled_by_context,
                   scheduled_by_queue, scheduled_by_subject, queues, worker, added_order,
                   late, sched_thread, pipeline_vars, model_cache, cert_models,
                   finder_thread>>

CreateFile(f, mtime) ==
    /\ ~files[f].exists
    /\ DiskStep([files EXCEPT ![f] = [exists |-> TRUE, mtime |-> mtime]], "disk")

TouchFile(f) ==
    /\ files[f].exists
    /\ files[f].mtime + 1 \in MtimesOf(f)
    /\ DiskStep([files EXCEPT ![f].mtime = @ + 1], "disk")

DeleteFile(f) ==
    /\ files[f].exists
    /\ DiskStep([files EXCEPT ![f] = NoFile], "disk")

\* The worker holds a context of one of the finder's models.
Works(w, name) ==
    /\ worker[w] \in RecordContexts
    /\ TaskNameOf(worker[w]) = name

\* A worker step on one of the finder's models that leaves the finder, the
\* disk and the handler's history alone.
WorkerStep(S, workers, op, out) ==
    /\ Entries(S) <= MaxTasks
    /\ FinderStep(S, workers, model_cache, cert_models, op, out)
    /\ UNCHANGED <<files, finder_thread, finder, handled>>

\* The parser thread is through with a parse task: it adds a renew task for
\* the model, or the task failed and is dropped.
ParseDone(w) ==
    /\ Works(w, "parse")
    /\ \/ \E c \in {ContextOf(RecordOf(worker[w]), "renew")} :
            /\ ~Held(c)
            /\ WorkerStep(add_task(Sched, c, None, now), Idle(w), "work", "none")
       \/ WorkerStep(Sched, Idle(w), "work", "none")

\* The renewer thread is through with a renew task: it wrote the staple and
\* adds a proxy-add task and the next renew task, or the task failed and is
\* tried again later.
RenewDone(w) ==
    /\ Works(w, "renew")
    /\ \/ \E proxy_add \in {ContextOf(RecordOf(worker[w]), "proxy-add")} :
            /\ ~Held(proxy_add)
            /\ WorkerStep(add_task(schedule_renew(Sched, worker[w], now), proxy_add,
                                   None, now),
                          Idle(w), "work", "none")
       \/ WorkerStep(add_task(Sched, worker[w], RelTime(RetryAfter), now), Idle(w),
                     "work", "none")

\* The adder thread is through with a proxy-add task: the staple was sent,
\* or the task failed and is tried again later.
ProxyAddDone(w) ==
    /\ Works(w, "proxy-add")
    /\ \/ WorkerStep(Sched, Idle(w), "work", "none")
       \/ WorkerStep(add_task(Sched, worker[w], RelTime(RetryAfter), now), Idle(w),
                     "work", "none")

\* The finder with the workers of the stage queues, d1/a.pem being the one
\* certificate file that comes and goes.  What the finder does to the models
\* and their tasks does not depend on how long a refresh takes: every refresh
\* takes longer than refresh_interval here, and the next one starts at once.
NextFinder ==
    \/ \E failure \in {f \in Failures : f.at \in {"", "d1"}} : Refresh(failure, MaxTook)
    \/ \E f \in {"d1/a.pem"} : \E mtime \in MtimesOf(f) : CreateFile(f, mtime)
    \/ \E f \in {"d1/a.pem"} : TouchFile(f)
    \/ \E f \in {"d1/a.pem"} : DeleteFile(f)
    \/ \E w \in Workers, name \in QueueNames : GetTask(w, name)
    \/ \E w \in Workers : ParseDone(w)
    \/ \E w \in Workers : RenewDone(w)
    \/ \E w \in Workers : ProxyAddDone(w)

SpecFinder == Init /\ [][NextFinder]_vars

\* The finder thread alone with its clock, every refresh taking any time up
\* to MaxTook, and the daemon that stops it.
NextFinderClock ==
    \/ \E failure \in Failures, took \in 0..MaxTook : Refresh(failure, took)
    \/ SleepSecond
    \/ WakeUp
    \/ StopFinder
    \/ FinderReturns
    \/ \E f \in CertFiles : \E mtime \in MtimesOf(f) : CreateFile(f, mtime)
    \/ \E f \in CertFiles : TouchFile(f)
    \/ \E f \in CertFiles : DeleteFile(f)

SpecFinderClock == Init /\ [][NextFinderClock]_vars

\* ---------------------------------------------------------------------------
\* OCSPAdder: sending a command to an admin socket
\* ---------------------------------------------------------------------------

\* One call of send(socket_key, command), at its first sendall. The history
\* fields count what this call did: its calls of sendall, of close and of
\* _open_socket, and whether its handler swallowed an exception.
NewFrame(command) ==
    [command |-> command, pc |-> "sendall", writes |-> 0, closes |-> 0, reopens |-> 0,
     failed |-> FALSE]

\* The call of send that is running: the innermost one.
Top == adder.stack[Len(adder.stack)]

SetTop(stack, frame) == [stack EXCEPT ![Len(stack)] = frame]

\* A step of the adder thread inside add_staple: nothing but the adder moves.
\* The history field `swallowed` tells whether the handler inside a call of
\* send of this task has swallowed an exception.
AdderStep(a) ==
    /\ adder' = [a EXCEPT !.swallowed =
                   /\ a.task # "idle"
                   /\ adder.swallowed \/ \E i \in DOMAIN a.stack : a.stack[i].failed]
    /\ UNCHANGED <<now, schedule, schedule_keys, scheduled_by_context, scheduled_by_queue,
                   scheduled_by_subject, queues, worker, added_order, late, last,
                   sched_thread, task_contexts, models, finder, failed, tried, handled,
                   finder_vars, supervisor, counts, uniq>>

\* A variant of broken_pipe that goes back to re-opening whenever a write
\* breaks.
broken_pipe_again(frame) == [frame EXCEPT !.pc = "reopen", !.writes = @ + 1]

\* sendall raised BrokenPipeError. In the try block the except clause takes
\* it and goes on to close and re-open; the sendall after the re-open is
\* inside no try block, the exception leaves the with block, the handler logs
\* it, and send goes on to read the response.
broken_pipe(frame) ==
    IF frame.writes = 0
    THEN [frame EXCEPT !.pc = "reopen", !.writes = 1]
    ELSE [frame EXCEPT !.pc = "recv", !.writes = @ + 1, !.failed = TRUE]

\* add_staple(model): the command is sent to the socket of the directory of
\* the model's file. The peer may have closed a connected socket since it was
\* last used.
AddStaple(key, sock) ==
    /\ adder.task = "idle"
    /\ sock \in (IF adder.socks[key] = "connected" THEN {"connected", "broken"}
                 ELSE {adder.socks[key]})
    /\ AdderStep([adder EXCEPT !.task = "sending", !.key = key, !.socks[key] = sock,
                               !.stack = <<NewFrame("set ssl ocsp-response")>>,
                               !.response = "none", !.raised = "none"])

\* self.socks[socket_key].sendall(...), the first one or the one after the
\* re-open. A socket that never connected raises an OSError that is no
\* BrokenPipeError: it leaves the with block and the handler swallows it.
SendAll(outcome) ==
    /\ adder.task = "sending"
    /\ Top.pc = "sendall"
    /\ \E sock \in {adder.socks[adder.key]} :
        CASE outcome = "sent" ->
               /\ sock = "connected"
               /\ AdderStep([adder EXCEPT !.stack =
                     SetTop(@, [Top EXCEPT !.pc = "recv", !.writes = @ + 1])])
          [] outcome = "BrokenPipeError" ->
               /\ sock \in {"connected", "broken"}
               /\ Top.writes > 0 \/ Len(adder.stack) < MaxDepth
               /\ AdderStep([adder EXCEPT !.socks[adder.key] = "broken",
                                          !.stack = SetTop(@, broken_pipe(Top))])
          [] OTHER ->
               /\ sock = "unconnected"
               /\ AdderStep([adder EXCEPT !.stack =
                     SetTop(@, [Top EXCEPT !.pc = "recv", !.writes = @ + 1,
                                           !.failed = TRUE])])

\* The except clause: close() on the cached socket, then _open_socket, which
\* puts a new socket in self.socks and connects it. When connect fails the
\* SocketError leaves the with block of this call and the handler logs it;
\* otherwise _open_socket calls self.send(key, "prompt").
ReOpen(connects) ==
    /\ adder.task = "sending"
    /\ Top.pc = "reopen"
    /\ \E frame \in {[Top EXCEPT !.closes = @ + 1, !.reopens = @ + 1]} :
        IF connects
        THEN AdderStep([adder EXCEPT
                 !.socks[adder.key] = "connected",
                 !.stack = Append(SetTop(@, [frame EXCEPT !.pc = "prompt"]),
                                  NewFrame("prompt"))])
        ELSE AdderStep([adder EXCEPT
                 !.socks[adder.key] = "unconnected",
                 !.stack = SetTop(@, [frame EXCEPT !.pc = "recv", !.failed = TRUE])])

\* What the recv loop of send ends with: the stripped response, or an IOError
\* that is neither EAGAIN nor EINTR and is raised again.
Responses(sock, command) ==
    IF sock = "connected"
    THEN IF command = "prompt" THEN {""} ELSE {"OCSP Response updated!", "Unknown command"}
    ELSE IF sock = "broken" THEN {"", "OSError"} ELSE {"OSError"}

\* A variant of add_staple that takes every reply for a success.
add_staple_any_reply(response) == IF response = "OSError" THEN "other" ELSE "none"

\* add_staple after send: the class of the exception that leaves it, in the
\* handler's terms. The IOError of the recv loop passes through add_staple as
\* it is; a reply other than 'OCSP Response updated!' is an
\* OCSPAdderBadResponse.
add_staple(response) ==
    IF response = "OSError" THEN "other"
    ELSE IF response = "OCSP Response updated!" THEN "none"
    ELSE "OCSPAdderBadResponse"

\* The recv loop and the return of send. The outermost call returns to
\* add_staple, which raises OCSPAdderBadResponse unless the response is
\* 'OCSP Response updated!'; a call made by _open_socket returns to the with
\* block of the call that re-opened, which goes on to its second sendall, or,
\* on an exception, to its own recv loop.
Recv ==
    /\ adder.task = "sending"
    /\ Top.pc = "recv"
    /\ \E r \in Responses(adder.socks[adder.key], Top.command) :
        IF Len(adder.stack) = 1
        THEN AdderStep([adder EXCEPT
                 !.task = IF add_staple(r) = "none" THEN "done" ELSE "failed",
                 !.response = r,
                 !.raised = add_staple(r),
                 !.stack = SetTop(@, [Top EXCEPT !.pc = "returned"])])
        ELSE \E caller \in {adder.stack[Len(adder.stack) - 1]} :
               AdderStep([adder EXCEPT !.stack =
                   SetTop(SubSeq(@, 1, Len(@) - 1),
                          IF r = "OSError"
                          THEN [caller EXCEPT !.pc = "recv", !.failed = TRUE]
                          ELSE [caller EXCEPT !.pc = "sendall"])])

\* run(): the with block of the task is left, task_done, the next get_task.
NextTask ==
    /\ adder.task \in {"done", "failed"}
    /\ AdderStep([adder EXCEPT !.task = "idle", !.stack = << >>, !.response = "none",
                               !.raised = "none"])

NextAdder ==
    \/ \E key \in {"d1", "d2"}, sock \in {"connected", "broken", "unconnected"} :
         AddStaple(key, sock)
    \/ \E outcome \in {"sent", "BrokenPipeError", "OSError"} : SendAll(outcome)
    \/ \E connects \in BOOLEAN : ReOpen(connects)
    \/ Recv
    \/ NextTask

SpecAdder == Init /\ [][NextAdder]_vars

\* ---------------------------------------------------------------------------
\* the daemon's main thread: monitor_threads
\* ---------------------------------------------------------------------------

\* __spawn_thread: the thread is started and appended to all_threads.
spawn_thread(sup, name, restarted) ==
    LET thread == [name |-> name, restarted |-> restarted]
    IN  [sup EXCEPT !.all_threads = Append(@, thread), !.alive = @ \cup {thread}]

\* list.pop(key) for a key counted from 1.
ListPop(list, key) == [i \in 1..(Len(list) - 1) |-> IF i < key THEN list[i] ELSE list[i + 1]]

\* "Find crashed threads": the keys of the threads that are not alive, in
\* the order of the list. The keys count from 1 here and from 0 in the code.
RECURSIVE find_crashed(_, _)
find_crashed(sup, key) ==
    IF key > Len(sup.all_threads) THEN << >>
    ELSE IF sup.all_threads[key] \notin sup.alive
    THEN <<key>> \o find_crashed(sup, key + 1)
    ELSE find_crashed(sup, key + 1)

\* The body of "for key in restart": all_threads.pop(key), which raises
\* IndexError for a key past the end, and a spawn when the thread that was
\* popped has been restarted less than MAX_RESTART_THREADS times.
respawn_one(sup, key) ==
    IF key > Len(sup.all_threads) THEN [sup EXCEPT !.pc = "IndexError"]
    ELSE LET thread == sup.all_threads[key]
             popped == [sup EXCEPT !.all_threads = ListPop(@, key)]
         IN  IF thread.restarted < MAX_RESTART_THREADS
             THEN spawn_thread(popped, thread.name, thread.restarted + 1)
             ELSE popped

\* "Respawn crashed threads": the keys found are used one after the other on
\* the list as the pops and spawns before have left it.
RECURSIVE respawn(_, _)
respawn(sup, restart) ==
    IF restart = << >> \/ sup.pc = "IndexError" THEN sup
    ELSE respawn(respawn_one(sup, Head(restart)), Tail(restart))

\* A step of the main thread or of the life of a worker thread.
SupervisorStep(sup) ==
    /\ supervisor' = sup
    /\ UNCHANGED <<now, schedule, schedule_keys, scheduled_by_context, scheduled_by_queue,
                   scheduled_by_subject, queues, worker, added_order, late, last,
                   sched_thread, task_contexts, models, finder, failed, tried, handled,
                   adder, finder_vars, counts, uniq>>

\* One pass of `while not self.stop` in monitor_threads.
MonitorPass ==
    /\ supervisor.pc = "monitor"
    /\ ~supervisor.stop
    /\ SupervisorStep(respawn(supervisor, find_crashed(supervisor, 1)))

\* run() of a worker thread ends with an exception its handler did not take.
ThreadDies(thread) ==
    /\ thread \in supervisor.alive
    /\ SupervisorStep([supervisor EXCEPT !.alive = @ \ {thread}])

\* exit_gracefully: SIGINT or SIGTERM.
Signal ==
    /\ ~supervisor.stop
    /\ SupervisorStep([supervisor EXCEPT !.stop = TRUE])

\* After the loop: thread['thread'].stop = True for the threads of
\* all_threads; the joins follow.
StopAllThreads ==
    /\ supervisor.pc = "monitor"
    /\ supervisor.stop
    /\ SupervisorStep([supervisor EXCEPT
          !.stopping = {supervisor.all_threads[i] : i \in DOMAIN supervisor.all_threads},
          !.pc = "join"])

\* `while not self.stop` of a worker thread whose stop flag is set: run()
\* returns.
ThreadLeaves(thread) ==
    /\ thread \in supervisor.alive
    /\ thread \in supervisor.stopping
    /\ SupervisorStep([supervisor EXCEPT !.alive = @ \ {thread}])

\* thread.join() has returned for every thread of threading.enumerate().
Joined ==
    /\ supervisor.pc = "join"
    /\ supervisor.alive = {}
    /\ SupervisorStep([supervisor EXCEPT !.pc = "stopped"])

\* The threads whose run() is followed when it ends with an exception.
Mortal == {"renewer-00", "parser", "finder"}

\* Every thread that can exist.
Threads == {[name |-> ThreadNames[i], restarted |-> r] :
              i \in DOMAIN ThreadNames, r \in 0..(MAX_RESTART_THREADS + 1)}

NextSupervisor ==
    \/ MonitorPass
    \/ \E thread \in {t \in Threads : t.name \in Mortal} : ThreadDies(thread)
    \/ Signal
    \/ StopAllThreads
    \/ \E thread \in Threads : ThreadLeaves(thread)
    \/ Joined

SpecSupervisor == Init /\ [][NextSupervisor]_vars

\* The main thread and every worker thread get their turn.
SpecSupervisorFair ==
    /\ SpecSupervisor
    /\ WF_vars(MonitorPass)
    /\ WF_vars(StopAllThreads)
    /\ \A thread \in Threads : WF_vars(ThreadLeaves(thread))
    /\ WF_vars(Joined)

\* ------------------------------------------------- vocabulary of the properties

\* The step is the add_task call of c with sched_time st (the operation's name
\* in `last` is looked at first: it settles most steps at once).
AddTaskStep(c, st) == last'.op = "add_task" /\ AddTaskCall(c, st)

\* The step is a dispatch tick.
TickStep == last'.op = "tick" /\ Tick

\* The step is cancel_task(c).
CancelTaskStep(c) == last'.op = "cancel_task" /\ CancelTask(c)

\* The step is cancel_by_subject(subject).
CancelBySubjectStep(subject) == last'.op = "cancel_by_subject" /\ CancelBySubject(subject)

\* The step is worker w's get_task(name).
GetTaskStep(w, name) == last'.op = "get_task" /\ GetTask(w, name)

\* How often the context occurs on the stage queues qs.
QueueCount(qs, c) ==
    Count(qs["parse"], c) + Count(qs["renew"], c) + Count(qs["proxy-add"], c)

\* The context occurs somewhere in the deadline table S: in the forward map or
\* in one of the reverse maps.
InTable(S, c) ==
    \/ c \in DOMAIN S.by_context
    \/ \E t \in DOMAIN S.schedule : InList(S.schedule[t], c)
    \/ \E q \in DOMAIN S.by_queue : InList(S.by_queue[q], c)
    \/ \E s \in DOMAIN S.by_subject : InList(S.by_subject[s], c)

\* The context is in every map of the deadline table S, under deadline t.
ScheduledAt(S, c, t) ==
    /\ c \in DOMAIN S.by_context /\ S.by_context[c] = t
    /\ t \in DOMAIN S.schedule /\ InList(S.schedule[t], c)
    /\ InList(S.by_queue[TaskNameOf(c)], c)
    /\ SubjectOf(c) \in DOMAIN S.by_subject /\ InList(S.by_subject[SubjectOf(c)], c)

\* The context's place in the deadline table is the same before and after the step.
TableEntryUnchanged(c) ==
    IF c \in DOMAIN scheduled_by_context
    THEN ScheduledAt(Sched', c, scheduled_by_context[c])
    ELSE ~InTable(Sched', c)

\* The outcomes (last.out) of a worker's step in which the task raised nothing.
Successes == {"done", "queued", "scheduled", "queued, recycling disabled"}

\* The step is a worker's step for context c in which the task raised an
\* exception, so that ocsp_except_handle ran for c; handled' describes the run.
FailingStep(c) ==
    /\ last'.op \in QueueNames
    /\ last'.out \notin Successes
    /\ handled'.ctx = c
    /\ \E w \in Workers : worker[w] = c /\ worker'[w] = NoCtx

\* The classes of exception for which the handler calls set_last_exception.
CountedKinds == {"CertFileAccessError", "OCSPAdderBadResponse", "OCSPBadResponse", "network"}

\* How many contexts of the task name and the subject the scheduler of S
\* holds, in the deadline table or on a stage queue.
Pending(S, name, subject) ==
    Cardinality({c \in TaskContexts :
                   /\ TaskNameOf(c) = name /\ SubjectOf(c) = subject
                   /\ (c \in DOMAIN S.by_context \/ QueueCount(S.queues, c) > 0)})

\* ------------------------------------------------- C1
\* C1: after cancel_by_subject(S) no context whose subject is S is left in the
\* deadline table (schedule, scheduled_by_context, scheduled_by_subject,
\* scheduled_by_queue), and every context of another subject that was in the
\* table is still there under the same deadline; for any number of pending
\* tasks of S.
C1_CancelBySubjectRemovesAllOfSubject ==
    [][\A subject \in Subjects :
          CancelBySubjectStep(subject) =>
            \A c \in Ctx :
              IF SubjectOf(c) = subject
              THEN ~InTable(Sched', c)
              ELSE TableEntryUnchanged(c)]_vars

\* ------------------------------------------------- C2
\* C2: every context is in at most one place: never in the deadline table and
\* on a stage queue at the same time, never twice on the stage queues, and not
\* on a stage queue while a worker that dequeued it still has it.
C2_ContextInOnePlace ==
    \A c \in Ctx :
      /\ (IF c \in DOMAIN scheduled_by_context THEN 1 ELSE 0) + QueueCount(queues, c) <= 1
      /\ (\E w \in Workers : worker[w] = c) => QueueCount(queues, c) = 0

\* ------------------------------------------------- C3
\* C3: the reverse maps agree exactly with the forward deadline map: ctx is in
\* schedule[t] iff scheduled_by_context[ctx] = t, iff ctx is in
\* scheduled_by_subject[ctx.subject], iff ctx is in
\* scheduled_by_queue[ctx.task_name]; and ctx occurs exactly once in each of
\* those lists (and in no list of another deadline, subject or queue).
C3_ReverseMapsAgree ==
    \A c \in Ctx :
      LET pending == c \in DOMAIN scheduled_by_context
          n == IF pending THEN 1 ELSE 0
      IN  /\ \A t \in DOMAIN schedule :
                Count(schedule[t], c)
                  = (IF pending /\ scheduled_by_context[c] = t THEN 1 ELSE 0)
          /\ pending => scheduled_by_context[c] \in DOMAIN schedule
          /\ \A s \in DOMAIN scheduled_by_subject :
                Count(scheduled_by_subject[s], c) = (IF s = SubjectOf(c) THEN n ELSE 0)
          /\ pending => SubjectOf(c) \in DOMAIN scheduled_by_subject
          /\ \A q \in DOMAIN scheduled_by_queue :
                Count(scheduled_by_queue[q], c) = (IF q = TaskNameOf(c) THEN n ELSE 0)

\* A state of C3: two contexts wait under one deadline, another slot is
\* empty and the last operation was a cancel_task that returned True.
C3_Witness ==
    /\ \E t \in DOMAIN schedule : Len(schedule[t]) >= 2
    /\ \E t \in DOMAIN schedule : schedule[t] = << >>
    /\ last.op = "cancel_task" /\ last.out = "True"

\* ------------------------------------------------- C4
\* S is the current state with the context put on its stage queue and the
\* deadline table left alone.
QueuedAtOnce(S, c) ==
    /\ S.queues = [queues EXCEPT ![TaskNameOf(c)] = Append(@, c)]
    /\ S.schedule = schedule
    /\ S.by_context = scheduled_by_context
    /\ S.by_queue = scheduled_by_queue
    /\ S.by_subject = scheduled_by_subject
    /\ S.exc = "none"

\* S is the current state with the context placed in the deadline table under
\* t and no queue touched.
ScheduledOnly(S, c, t) ==
    /\ ScheduledAt(S, c, t)
    /\ S.queues = queues
    /\ S.exc = "none"

\* A context gets onto a stage queue only by an add_task with one of the
\* sched_times `asap`, or by a dispatch tick at or after its deadline.
QueuedOnlyWhenDue(asap) ==
    \A c \in Ctx :
      QueueCount(queues', c) > QueueCount(queues, c) =>
        \/ \E st \in asap : AddTaskStep(c, st)
        \/ /\ TickStep
           /\ c \in DOMAIN scheduled_by_context
           /\ scheduled_by_context[c] <= now

\* C4: add_task (called in any reachable state, with any context) with a null
\* sched_time puts ctx on its stage queue at once and leaves the deadline table
\* unchanged; add_task with a non-null sched_time places ctx in the deadline
\* table under that time and puts it on no stage queue until a dispatch tick at
\* or after that time.
C4_NullQueuesNonNullSchedules ==
    /\ [](\A c \in Ctx, st \in SchedTimes :
            \E S \in {add_task(Sched, c, st, now)} :
              IF st = None
              THEN QueuedAtOnce(S, c)
              ELSE ScheduledOnly(S, c, Deadline(st, now)))
    /\ [][QueuedOnlyWhenDue({None})]_vars

\* ------------------------------------------------- C5
\* The context has exactly one entry in the deadline table S, under t.
OnlyScheduledAt(S, c, t) ==
    /\ ScheduledAt(S, c, t)
    /\ \A u \in DOMAIN S.schedule : Count(S.schedule[u], c) = (IF u = t THEN 1 ELSE 0)
    /\ S.exc = "none"
    /\ Count(S.by_queue[TaskNameOf(c)], c) = 1
    /\ Count(S.by_subject[SubjectOf(c)], c) = 1

\* A dispatch tick moves a scheduled context at most once, and not before the
\* deadline it is scheduled under.
DispatchedOnceWhenDue ==
    \A c \in Ctx :
      TickStep /\ QueueCount(queues', c) # QueueCount(queues, c) =>
        /\ c \in DOMAIN scheduled_by_context
        /\ scheduled_by_context[c] <= now
        /\ QueueCount(queues', c) = QueueCount(queues, c) + 1
        /\ ~InTable(Sched', c)

\* C5: add_task (directly or through ctx.reschedule), called in any reachable
\* state with a context that is already in the deadline table and a new
\* non-null time, leaves the context with exactly one entry, under the new
\* time, and none under the old time; it is dispatched once, at the new time.
C5_ReAddNonNullTimeWins ==
    /\ [](\A c \in DOMAIN scheduled_by_context, st \in SchedTimes \ {None} :
            OnlyScheduledAt(add_task(Sched, c, st, now), c, Deadline(st, now)))
    /\ [][DispatchedOnceWhenDue]_vars

Before(l, a, b) == \E i, j \in 1..Len(l) : i < j /\ l[i] = a /\ l[j] = b

\* What the step appended to the stage queue q.
Appended(q) == SubSeq(queues'[q], Len(queues[q]) + 1, Len(queues'[q]))

\* The list `after` is the list `before` with something appended, or nothing.
Extends(before, after) ==
    /\ Len(after) >= Len(before)
    /\ SubSeq(after, 1, Len(before)) = before

\* C8: two contexts with the same deadline and the same stage queue are put on
\* the queue in the order of their add_task calls, and a stage queue is FIFO:
\* add_task (called in any reachable state, with any context and sched_time)
\* and the tick only append to it, get_task takes its head.
C8_SameDeadlineInAddOrder ==
    /\ [](\A c \in Ctx, st \in SchedTimes, q \in QueueNames :
            Extends(queues[q], add_task(Sched, c, st, now).queues[q]))
    /\ [][/\ TickStep =>
               \A q \in QueueNames :
                 /\ Extends(queues[q], queues'[q])
                 /\ \A i, j \in 1..Len(Appended(q)) :
                       /\ i < j
                       /\ scheduled_by_context[Appended(q)[i]]
                            = scheduled_by_context[Appended(q)[j]]
                       => Before(added_order[q], Appended(q)[i], Appended(q)[j])
          /\ \A w \in Workers, q \in QueueNames :
               GetTaskStep(w, q) =>
                 /\ worker'[w] = Head(queues[q])
                 /\ queues'[q] = Tail(queues[q])]_vars

\* A state of C8: at time 0, where only one deadline can be due, the last tick
\* moved two contexts or more onto one stage queue.
C8_Witness ==
    /\ last.op = "tick" /\ last.n >= 2
    /\ now = 0
    /\ \E q \in QueueNames :
          \E i, j \in 1..Len(queues[q]) :
            /\ i < j
            /\ TaskNameOf(queues[q][i]) = q /\ TaskNameOf(queues[q][j]) = q
            /\ \A c \in Ctx : InList(queues[q], c) \/ c \notin DOMAIN scheduled_by_context

\* C9: a dispatch tick puts the expired contexts on a stage queue in the order
\* of their add_task calls, whatever their deadlines.
C9_DispatchInAddOrder ==
    [][TickStep =>
        \A q \in QueueNames :
          \A i, j \in 1..Len(Appended(q)) :
            i < j => Before(added_order[q], Appended(q)[i], Appended(q)[j])]_vars

\* ------------------------------------------------- C10
\* C10: a context scheduled with a deadline that was already <= now is moved
\* to its stage queue by the first dispatch tick after that add_task.
C10_DueWhenAddedMovedByNextTick ==
    [][TickStep =>
        \A c \in late :
          /\ ~InTable(Sched', c)
          /\ Count(queues'[TaskNameOf(c)], c) = Count(queues[TaskNameOf(c)], c) + 1]_vars

\* A state of C10: the last tick moved a context that was already due when it
\* was scheduled.
C10_Witness ==
    /\ last.op = "tick" /\ last.n_late >= 1

\* ------------------------------------------------- C11
\* C11: with the callers' operations running between the statements of the
\* scheduler thread's dispatch pass, no exception ends the scheduler thread,
\* and between two passes every context found anywhere in the deadline table
\* is in all of its maps under one deadline (the reverse maps agree with the
\* forward map), so that no context is lost from the maps or left in them.
C11_InterleavingsKeepTheTableSound ==
    /\ sched_thread.pc # "dead"
    /\ sched_thread.pc = "sleep" =>
         \A c \in Ctx :
           InTable(Sched, c) =>
             /\ c \in DOMAIN scheduled_by_context
             /\ ScheduledAt(Sched, c, scheduled_by_context[c])

\* ------------------------------------------------- C12
\* C12: the counter set_last_exception returns is 1 for the first exception of
\* a context, one more than before when the new exception's string equals the
\* previous one, and 1 again when it differs from the previous one.  (The
\* previous exception of c is known where the last run of the handler was
\* for c as well.)
C12_CounterCountsSameInARow ==
    [][\A c \in TaskContexts :
          FailingStep(c) /\ handled'.kind \in CountedKinds =>
            IF failed[c] = 0
            THEN handled'.err_count = 1
            ELSE handled.ctx = c =>
                   handled'.err_count =
                     IF handled'.exc = handled.exc
                     THEN task_contexts[c].last_exception_count + 1
                     ELSE 1]_vars

\* ------------------------------------------------- C13
\* The context is referred to by nothing in the scheduler S.
NotInScheduler(S, c) == ~InTable(S, c) /\ QueueCount(S.queues, c) = 0

\* The context is in the deadline table of S, d seconds from now, and on no
\* stage queue.
RescheduledAfter(S, c, d) == ScheduledAt(S, c, now' + d) /\ QueueCount(S.queues, c) = 0

\* The classes of the handler's first clause.
AccessErrors == {"CertFileAccessError", "OCSPAdderBadResponse"}

\* The handler's run for the n-th failure in a row of a context with an
\* exception of class kind.
NthFailure(kind, n) ==
    ocsp_except_handle(kind, "again", TRUE,
                       [last_exception |-> "again", last_exception_count |-> n - 1], 0, 1)

\* C13: on the n-th failure in a row of a context with CertFileAccessError or
\* with the adder's bad response, the handler reschedules the context after n
\* minutes for n = 1..3 and after one hour for n = 4..6, and on the 7th it
\* does not reschedule it: the scheduler then holds the context nowhere.
C13_AccessErrorCadence ==
    /\ \A kind \in AccessErrors, n \in 1..MaxFailures :
         NthFailure(kind, n).delay =
           IF n <= 3 THEN 60 * n ELSE IF n <= 6 THEN 3600 ELSE NoDelay
    /\ [][\A c \in TaskContexts :
            FailingStep(c) /\ handled'.kind \in AccessErrors =>
              \E n \in {failed[c] + 1} :
                /\ handled'.err_count = n
                /\ n <= 3 => RescheduledAfter(Sched', c, 60 * n)
                /\ n \in 4..6 => RescheduledAfter(Sched', c, 3600)
                /\ n >= 7 => NotInScheduler(Sched', c) /\ ~Held(c)']_vars

\* The adder's seventh bad response in a row for one context was given up.
C13_Witness ==
    /\ last.op = "proxy-add"
    /\ handled.kind = "OCSPAdderBadResponse"
    /\ handled.err_count = 7
    /\ handled.delay = NoDelay
    /\ NotInScheduler(Sched, handled.ctx)

\* ------------------------------------------------- C14
\* The n-th failure of context c, a failure with OCSPBadResponse, is
\* rescheduled as cadence(n) says (NoDelay: not at all).  n counts the
\* failures the context has had since it was made, network errors included:
\* a renew context that has failed is run again only to fail again or to end.
BadResponseFollows(cadence(_)) ==
    \A c \in TaskContexts :
      FailingStep(c) /\ handled'.kind = "OCSPBadResponse" =>
        \E n \in {failed[c] + 1} :
          /\ handled'.err_count = n
          /\ IF cadence(n) = NoDelay
             THEN NotInScheduler(Sched', c) /\ ~Held(c)'
             ELSE RescheduledAfter(Sched', c, cadence(n))

\* 1, 2, 3 minutes, three times one hour, and then nothing.
GivingUpOnThe7th(n) == IF n <= 3 THEN 60 * n ELSE IF n <= 6 THEN 3600 ELSE NoDelay

\* 1, 2, 3 minutes, three times one hour, and then twelve hours.
TwiceADayFromThe7th(n) == IF n <= 3 THEN 60 * n ELSE IF n <= 6 THEN 3600 ELSE 43200

NetworkDelay(n, u) ==
    IF n <= 3 * u THEN 10 ELSE IF n <= 6 * u THEN 3600 ELSE 43200 \div u

\* The handler's run for a network error, the n-th failure of a context
\* whose record has u URLs and is at URL i.
NthNetworkFailure(n, u, i) ==
    ocsp_except_handle("network", "again", TRUE,
                       [last_exception |-> "again", last_exception_count |-> n - 1], i, u)

C16_EachUrlInTurnBeforeNextTier ==
    [][\A c \in TaskContexts :
         FailingStep(c) /\ handled'.kind = "network"
         /\ models[SubjectOf(c)].ocsp_urls > 1 =>
           \E u \in {models[SubjectOf(c)].ocsp_urls} :
             /\ models'[SubjectOf(c)].url_index = (models[SubjectOf(c)].url_index + 1) % u
             /\ (tried[c].delay # NoDelay /\ handled'.delay # tried[c].delay) =>
                  \A i, j \in 0..(u - 1) : tried[c].times[i] = tried[c].times[j]]_vars

\* ------------------------------------------------- C17
\* The classes of the handler's clause that drops the task.
DropKinds == {"RenewalRequirementMissing", "CertValidationError", "CertParsingError"}

\* The contexts of the subject's record that are somewhere in the scheduler
\* S or with one of the workers ws.
TasksOf(S, ws, subject) ==
    {c \in TaskContexts :
       /\ SubjectOf(c) = subject
       /\ (InTable(S, c) \/ QueueCount(S.queues, c) > 0 \/ \E w \in Workers : ws[w] = c)}

\* The handler's run for a failure of one of these classes: the context is
\* not rescheduled and is nowhere any more, the step adds no task for the
\* record, and on CertValidationError the record's staple file is gone.
DroppedWithoutReschedule ==
    \A c \in TaskContexts :
      FailingStep(c) /\ handled'.kind \in DropKinds =>
        /\ handled'.delay = NoDelay
        /\ NotInScheduler(Sched', c) /\ ~Held(c)'
        /\ TasksOf(Sched', worker', SubjectOf(c))
             \subseteq TasksOf(Sched, worker, SubjectOf(c)) \ {c}
        /\ handled'.kind = "CertValidationError" =>
             models'[SubjectOf(c)].ocsp_file = "missing"
        /\ models'[SubjectOf(c)].known

\* The tasks of the record whose task the handler dropped in its last run.
TasksAfterDrop == TasksOf(Sched, worker, SubjectOf(handled.ctx))

C18_RevokedDeletesStapleAndStops ==
    [][\A c \in TaskContexts :
         FailingStep(c) /\ last'.op = "renew" /\ handled'.exc = "revoked" =>
           /\ models'[SubjectOf(c)].ocsp_file = "missing"
           /\ Pending(Sched', "renew", SubjectOf(c)) = 0
           /\ models'[SubjectOf(c)].known]_vars

\* ------------------------------------------------- C19
\* The handler's run, entered without a context, for an exception of none of
\* the classes it names (the adder's socket send, the Finder's refresh).
UncaughtWithoutContext == ocsp_except_handle("other", "uncaught", FALSE, NewTaskContext, 0, 0)

\* C19: an exception of none of the classes the handler names, raised while
\* a worker runs a task, does not leave the handler: the worker is back at
\* get_task, and the context is not rescheduled and is nowhere any more.  The
\* same exception in a handler entered without a context does not leave it
\* either: the Finder goes on running.
C19_UncaughtIsCaughtAndDropped ==
    /\ UncaughtWithoutContext.raised = "none"
    /\ UncaughtWithoutContext.delay = NoDelay
    /\ [][/\ \A w \in Workers :
               /\ worker[w] # NoCtx
               /\ last'.op \in QueueNames
               /\ handled'.kind = "other" /\ handled'.ctx = worker[w]
               /\ last'.out \notin Successes
               => /\ handled'.raised = "none"
                  /\ worker'[w] = NoCtx
                  /\ handled'.delay = NoDelay
                  /\ NotInScheduler(Sched', worker[w])
                  /\ Sched' = Sched
          /\ last'.op = "find" /\ last'.out = "other" =>
               /\ handled'.raised = "none"
               /\ finder' = "running"
               /\ Sched' = Sched]_vars

\* After an exception of no named class the worker has taken the next task.
C19_Witness ==
    /\ handled.kind = "other"
    /\ handled.ctx # NoCtx
    /\ handled.raised = "none"
    /\ last.op = "get_task"
    /\ \E w \in Workers : worker[w] # NoCtx /\ worker[w] # handled.ctx

\* ------------------------------------------------- C20
\* The renew contexts of the subject's record that the scheduler S holds.
RenewTasksOf(S, subject) ==
    {c \in TaskContexts :
       /\ TaskNameOf(c) = "renew" /\ SubjectOf(c) = subject
       /\ (InTable(S, c) \/ QueueCount(S.queues, c) > 0)}

\* The outcomes of a parse task in which parse_crt_file raised.
ParseFailed == {f[1] : f \in ParseFailures}

\* C20: a parse task whose file parses and whose chain validates adds exactly
\* one renew task for the same record: on the renew queue at once (sched_time
\* null) when the staple file is missing, unreadable, empty, unparsable, not
\* good, expired, invalid or valid for less than minimum_validity, or when
\* recycling is disabled, and in the deadline table at valid_until -
\* minimum_validity otherwise.  A parse task that fails adds no renew task.
C20_ParseAddsOneRenewTask ==
    [][\A w \in Workers :
         worker[w] # NoCtx /\ TaskNameOf(worker[w]) = "parse" /\ last'.op = "parse" =>
           \E s \in {SubjectOf(worker[w])} :
             IF last'.out \in ParseFailed
             THEN RenewTasksOf(Sched', s) = RenewTasksOf(Sched, s)
             ELSE \E new \in TaskContexts \ RenewTasksOf(Sched, s) :
                    /\ RenewTasksOf(Sched', s) = RenewTasksOf(Sched, s) \cup {new}
                    /\ IF models[s].ocsp_file = "valid"
                          /\ last'.out # "queued, recycling disabled"
                       THEN RescheduledAfter(Sched', new, RenewAfter)
                       ELSE QueueCount(queues', new) = 1 /\ ~InTable(Sched', new)]_vars

\* ------------------------------------------------- C21
\* The contexts of the task name and the subject's record that the scheduler
\* S holds, in the deadline table or on a stage queue.
PendingOf(S, name, subject) ==
    {c \in TaskContexts :
       /\ TaskNameOf(c) = name /\ SubjectOf(c) = subject
       /\ (InTable(S, c) \/ QueueCount(S.queues, c) > 0)}

\* C21: a renew task whose fetch returns a good response that validates
\* writes the staple file and adds, for the same record, exactly one
\* proxy-add task that is queued at once (sched_time null) and exactly one
\* renew task with a new context at valid_until - minimum_validity.  A renew
\* task that fails writes no staple file and adds neither: no proxy-add task
\* and no renew context other than its own.
C21_RenewAddsSuccessorAndProxyAdd ==
    [][\A w \in Workers :
         worker[w] # NoCtx /\ TaskNameOf(worker[w]) = "renew" /\ last'.op = "renew" =>
           \E c \in {worker[w]} : \E s \in {SubjectOf(worker[w])} :
             IF last'.out = "done"
             THEN /\ models'[s].ocsp_file = "valid"
                  /\ \E new \in TaskContexts \ ({c} \cup PendingOf(Sched, "renew", s)) :
                       /\ PendingOf(Sched', "renew", s) = PendingOf(Sched, "renew", s) \cup {new}
                       /\ RescheduledAfter(Sched', new, RenewAfter)
                  /\ \E proxy_add \in TaskContexts \ PendingOf(Sched, "proxy-add", s) :
                       /\ PendingOf(Sched', "proxy-add", s)
                            = PendingOf(Sched, "proxy-add", s) \cup {proxy_add}
                       /\ QueueCount(queues', proxy_add) = 1
                       /\ ~InTable(Sched', proxy_add)
             ELSE /\ models'[s].ocsp_file \in {models[s].ocsp_file, "missing"}
                  /\ PendingOf(Sched', "proxy-add", s) = PendingOf(Sched, "proxy-add", s)
                  /\ PendingOf(Sched', "renew", s) \subseteq PendingOf(Sched, "renew", s) \cup {c}]_vars

\* A renewal succeeded for a record that had no staple file: the file is
\* there, a proxy-add context is queued and a renew context is scheduled.
C21_Witness ==
    /\ last.op = "renew" /\ last.out = "done"
    /\ \E s \in Subjects :
         /\ models[s].ocsp_file = "valid"
         /\ \E c \in PendingOf(Sched, "renew", s) : ScheduledAt(Sched, c, now + RenewAfter)
         /\ \E c \in PendingOf(Sched, "proxy-add", s) : QueueCount(queues, c) = 1

\* ------------------------------------------------- C22
\* C22: in every reachable state the ocsp_staple of a record, when it is
\* set, has passed validation against the record's chain: a response that
\* failed validation is not left in the record.
C22_StoredStapleIsValidated ==
    \A s \in Subjects : models[s].known => models[s].ocsp_staple \in {"None", "validated"}

\* ------------------------------------------------- the finder's properties

\* The step is one refresh of the finder thread.
RefreshStep ==
    /\ last'.op = "refresh"
    /\ finder = "running" /\ finder_thread.pc = "loop" /\ ~finder_thread.stop

\* The step is one refresh in which nothing fails: every directory is listed
\* and every file is read.
RefreshWithoutFailure ==
    /\ RefreshStep
    /\ Refresh(NoFailure, finder_thread'.took)

\* The contexts of the CertModel object r that the deadline table `by_context`
\* holds.
ScheduledFor(by_context, r) ==
    {c \in DOMAIN by_context : c \in RecordContexts /\ RecordOf(c) = r}

\* The filenames of the mapping whose file is not on the disk.
DeletedFiles == {f \in DOMAIN model_cache : ~files[f].exists}

\* C23: in every refresh, for every model of the mapping whose file no longer
\* exists, the finder cancels all pending tasks of that model and removes the
\* model: after the refresh the path is no key of the mapping and the
\* deadline table holds no task of that model.
C23_DeletedFileLeavesNoTask ==
    [][RefreshStep =>
         \A f \in DeletedFiles :
           /\ f \notin DOMAIN model_cache'
           /\ ScheduledFor(scheduled_by_context', model_cache[f]) = {}]_vars

\* The filenames of the mapping whose file has a newer modification time
\* than its model.
ChangedFiles ==
    {f \in DOMAIN model_cache :
       files[f].exists /\ files[f].mtime > cert_models[model_cache[f]].modtime}

\* The parse contexts that the step put on the parse queue for a model of
\* the file f.
ParseTasksAdded(f) ==
    {c \in RecordContexts :
       /\ InList(queues'["parse"], c) /\ ~InList(queues["parse"], c)
       /\ cert_models'[RecordOf(c)].filename = f}

\* C24: in every refresh (in which nothing fails), for every model of the
\* mapping whose file has a newer modification time, the tasks of the old
\* model are cancelled, and one new model is made: it is in the mapping under
\* the path, and one parse task with no deadline is added, whose subject is
\* that model.
C24_ChangedFileGetsOneModelAndOneParseTask ==
    [][RefreshWithoutFailure =>
         \A f \in ChangedFiles :
           /\ \A c \in ScheduledFor(scheduled_by_context, model_cache[f]) :
                c \notin DOMAIN scheduled_by_context'
           /\ f \in DOMAIN model_cache'
           /\ cert_models'[model_cache'[f]].modtime = files[f].mtime
           /\ ParseTasksAdded(f) = {ContextOf(model_cache'[f], "parse")}]_vars

\* The entries that os.listdir finds in the configured directories.
EntriesOnDisk ==
    UNION {{listdir(files, CertPaths[i])[j] :
              j \in 1..Len(listdir(files, CertPaths[i]))} : i \in 1..Len(CertPaths)}

\* C25: in every refresh (in which nothing fails) a file that is no changed
\* file of the mapping gets a new model in the mapping and one parse task with
\* no deadline if and only if its extension is a configured one, its path is
\* no key of the mapping and matches no ignore pattern; a file that is in the
\* mapping and unchanged keeps its model and gets no parse task, in every
\* refresh.
C25_NewModelIffNewCertificateFile ==
    [][RefreshWithoutFailure =>
         \A entry \in EntriesOnDisk \ ChangedFiles :
           IF /\ ext(entry) \in file_extensions
              /\ entry \notin DOMAIN model_cache
              /\ ~check_ignore(entry)
           THEN /\ entry \in DOMAIN model_cache'
                /\ cert_models'[model_cache'[entry]] =
                     [filename |-> entry, modtime |-> getmtime(files, entry)]
                /\ ParseTasksAdded(entry) = {ContextOf(model_cache'[entry], "parse")}
                /\ ContextOf(model_cache'[entry], "parse") \notin DOMAIN scheduled_by_context'
           ELSE /\ ParseTasksAdded(entry) = {}
                /\ IF entry \in DOMAIN model_cache
                   THEN /\ entry \in DOMAIN model_cache'
                        /\ model_cache'[entry] = model_cache[entry]
                        /\ cert_models'[model_cache[entry]] = cert_models[model_cache[entry]]
                   ELSE entry \notin DOMAIN model_cache']_vars

\* A refresh has found d1/a.pem: its model is in the mapping and its parse
\* task on the parse queue, and neither the text file nor the ignored
\* certificate file of the directory has a model.
C25_Witness ==
    /\ last.op = "refresh"
    /\ DOMAIN model_cache = {"d1/a.pem"}
    /\ InList(queues["parse"], ContextOf(model_cache["d1/a.pem"], "parse"))
    /\ \A r \in Records : cert_models[r].filename \in {"", "d1/a.pem"}

\* C26: right after every refresh that returns, for every path of the mapping
\* the modification time of the file is not greater than the modtime of the
\* model that the mapping holds for the path.
C26_NoFileNewerThanItsModel ==
    [][RefreshStep /\ last'.out = "none" =>
         \A f \in DOMAIN model_cache' :
           files'[f].exists =>
             files'[f].mtime <= cert_models'[model_cache'[f]].modtime]_vars

\* A refresh has returned with d1/a.pem in the mapping, the file having been
\* written after the daemon's start (modification time 1), and the model of
\* the mapping has that modification time.
C26_Witness ==
    /\ last.op = "refresh" /\ last.out = "none"
    /\ "d1/a.pem" \in DOMAIN model_cache
    /\ files["d1/a.pem"] = [exists |-> TRUE, mtime |-> 1]
    /\ cert_models[model_cache["d1/a.pem"]].modtime = 1

\* The contexts of the CertModel object r that wait on a stage queue or are in
\* a worker's hands.
DispatchedFor(qs, workers, r) ==
    {c \in RecordContexts :
       /\ RecordOf(c) = r
       /\ \/ \E q \in QueueNames : InList(qs[q], c)
          \/ \E w \in Workers : workers[w] = c}

\* C27: when a certificate file is deleted while a renew task of its model is
\* scheduled (and no task of the model has been passed on to a worker's
\* queue, where cancel_task does not reach), then after the next refresh the
\* model is out of the mapping and no task of the model is left in the
\* scheduler, so that no work is done for the model any more: no renewal, no
\* proxy-add, no new renew task.
C27_DeletedFileStopsAllWork ==
    [][RefreshStep =>
         \A f \in DeletedFiles :
           (/\ ContextOf(model_cache[f], "renew") \in DOMAIN scheduled_by_context
            /\ DispatchedFor(queues, worker, model_cache[f]) = {})
           => /\ f \notin DOMAIN model_cache'
              /\ ScheduledFor(scheduled_by_context', model_cache[f]) = {}
              /\ DispatchedFor(queues', worker', model_cache[f]) = {}]_vars

\* C28: a failure to list a configured directory or to open or stat a
\* certificate file during a refresh never ends the finder thread: after
\* every refresh the thread is still in its loop or asleep until the next
\* refresh.
C28_FailuresNeverEndTheFinder ==
    [][RefreshStep => finder' = "running" /\ finder_thread'.pc \in {"loop", "sleep"}]_vars

\* C29: between the starts of two consecutive refreshes at least
\* refresh_interval elapses, unless the earlier refresh itself took longer than
\* refresh_interval; and while the finder waits for the next refresh, it
\* checks the stop flag before every sleep, and no sleep is longer than a
\* second.
C29_RefreshIntervalBetweenRefreshes ==
    /\ [][RefreshStep /\ finder_thread.cycles = 1 =>
            \/ finder_thread.clock >= RefreshInterval
            \/ finder_thread.took > RefreshInterval]_vars
    /\ [][finder_thread.pc = "sleep" /\ finder_thread'.clock # finder_thread.clock =>
            /\ ~finder_thread.stop
            /\ finder_thread'.clock - finder_thread.clock <= Second]_vars

\* ---------------------------------------------------------------------------
\* the adder's properties
\* ---------------------------------------------------------------------------

\* The calls of send that are open before and after the step.
OpenBoth == DOMAIN adder.stack \cap DOMAIN adder'.stack

FirstDelay(kind) == ocsp_except_handle(kind, "exc", TRUE, NewTaskContext, 0, 1).delay

\* C31 as stated: a proxy-add task succeeds exactly when the stripped reply is
\* 'OCSP Response updated!', and a task that does not succeed, for another
\* reply or for an exception raised while sending, ends with the adder's
\* bad-response error, which the handler reschedules.
C31_FailedSendIsBadResponse ==
    adder.task \in {"done", "failed"} =>
        /\ adder.task = "done" <=> adder.response = "OCSP Response updated!"
        /\ adder.task = "failed" =>
             /\ adder.raised = "OCSPAdderBadResponse"
             /\ FirstDelay(adder.raised) > 0

\* C31 amended: a proxy-add task succeeds exactly when the stripped reply is
\* 'OCSP Response updated!'; another reply ends the task with the
\* bad-response error, which the handler reschedules; an exception of a write
\* or of the re-open is logged inside send and the task ends with whatever
\* the recv loop gives, and an IOError of the recv loop leaves add_staple as
\* it is and is not rescheduled.
C31_BadReplyIsBadResponse ==
    adder.task \in {"done", "failed"} =>
        /\ adder.task = "done" <=> adder.response = "OCSP Response updated!"
        /\ adder.task = "done" => adder.raised = "none" /\ ~adder.swallowed
        /\ adder.task = "failed" /\ adder.response # "OSError" =>
             /\ adder.raised = "OCSPAdderBadResponse"
             /\ FirstDelay(adder.raised) = 60
        /\ adder.task = "failed" /\ adder.response = "OSError" =>
             /\ adder.raised = "other"
             /\ adder.swallowed
             /\ FirstDelay(adder.raised) = NoDelay

\* A task failed with the bad-response error on a reply of a connected
\* socket that is not the success string, no exception having been raised.
C31_Witness ==
    /\ adder.task = "failed"
    /\ adder.response = "Unknown command"
    /\ adder.raised = "OCSPAdderBadResponse"
    /\ ~adder.swallowed

\* ---------------------------------------------------------------------------
\* the supervisor's properties
\* ---------------------------------------------------------------------------

\* The threads of all_threads.
Supervised(sup) == {sup.all_threads[i] : i \in DOMAIN sup.all_threads}

\* The threads a pass that starts now finds dead.
FoundDead == Supervised(supervisor) \ supervisor.alive

\* The thread follows t in the restarts of its name.
Successor(t) == [name |-> t.name, restarted |-> t.restarted + 1]

\* C32: no thread is ever spawned with a restart count above
\* MAX_RESTART_THREADS; in every pass a thread found dead with a lower count
\* is replaced in the list by one new, live thread of its name with the count
\* one higher, a thread found dead with the count MAX_RESTART_THREADS is
\* removed and not replaced, and the pass ends without an exception, so that
\* the supervisor goes on monitoring.
C32_AtMostThreeRestarts ==
    /\ [](\A t \in Supervised(supervisor) \cup supervisor.alive :
            t.restarted <= MAX_RESTART_THREADS)
    /\ [][MonitorPass =>
            /\ supervisor'.pc = "monitor"
            /\ \A t \in FoundDead :
                 /\ t \notin Supervised(supervisor')
                 /\ IF t.restarted < MAX_RESTART_THREADS
                    THEN /\ Successor(t) \in supervisor'.alive
                         /\ Successor(t) \in Supervised(supervisor')
                    ELSE Successor(t) \notin supervisor'.alive]_vars

\* C39: in every pass a live thread of the list stays in the list and is
\* not spawned again, every thread found dead is taken out of the list in
\* that pass, and of no name more than one thread is alive (one thread per
\* name is configured); this with any number of threads found dead.
C39_OnlyDeadWorkersAreReplaced ==
    /\ [](\A i \in DOMAIN ThreadNames :
            Cardinality({t \in supervisor.alive : t.name = ThreadNames[i]}) <= 1)
    /\ [][MonitorPass =>
            /\ \A t \in Supervised(supervisor) \cap supervisor.alive :
                 /\ t \in Supervised(supervisor')
                 /\ Successor(t) \notin supervisor'.alive
            /\ \A t \in FoundDead : t \notin Supervised(supervisor')]_vars

\* C33: once SIGINT or SIGTERM has set the stop flag, the main thread sets
\* the stop flag of every live worker thread, respawned ones included, every
\* worker thread leaves its loop, and the joins of the main thread complete.
C33_StopReachesEveryWorker ==
    /\ [][StopAllThreads => supervisor'.alive \subseteq supervisor'.stopping]_vars
    /\ supervisor.stop ~> supervisor.pc = "stopped"

\* ------------------------------------------------- C34
\* No task and no refresh has failed: the responder's answers were good and
\* the admin socket answered with the success string.
NothingFailed == handled = NothingHandled

\* The finder found the certificate without a staple file next to it.
ColdStart == counts.found_with["a.pem"] = "missing"

\* The one pending task is a renew task of the certificate, in the deadline
\* table at valid_until - minimum_validity, and nothing is queued or at work.
OneRenewPending ==
    /\ \A q \in QueueNames : queues[q] = << >>
    /\ \A w \in Workers : worker[w] = NoCtx
    /\ \E c \in TaskContexts :
         /\ TaskNameOf(c) = "renew" /\ SubjectOf(c) = "a.pem"
         /\ DOMAIN scheduled_by_context = {c}
         /\ scheduled_by_context[c] = now + RenewAfter
         /\ DOMAIN schedule = {now + RenewAfter}
         /\ schedule[now + RenewAfter] = <<c>>

ColdStarted ==
    /\ ColdStart
    /\ models["a.pem"].ocsp_file = "valid"
    /\ OneRenewPending
    /\ counts.sent["a.pem"] = 1

\* C34: after a cold start (one certificate, no staple file) in which every
\* fetch returns a good response and the admin socket replies with the
\* success string, the daemon reaches, before the clock moves on, a state in
\* which the staple file is written, the only pending task is one renew task
\* of the certificate at valid_until - minimum_validity, and one set-staple
\* command has been sent; no second command is sent.
C34_ColdStart ==
    /\ ColdStart ~> (~NothingFailed \/ ColdStarted)
    /\ [](ColdStart /\ NothingFailed => counts.sent["a.pem"] <= 1)
    /\ [](ColdStarted => [](~NothingFailed \/ ColdStarted))

C34_Witness == ColdStarted /\ NothingFailed /\ last.op = "proxy-add"

\* ------------------------------------------------- C35
\* The finder found the certificate with a staple file that is good,
\* validates and is valid for longer than minimum_validity.
WarmStart == counts.found_with["a.pem"] = "valid"

\* The parse task has run with --no-recycle.
RecyclingDisabled == counts.parsed["a.pem"] = "queued, recycling disabled"

\* The staple of the file is the model's, one renew task is pending at its
\* valid_until - minimum_validity, and no renew task has run.
Recycled ==
    /\ WarmStart
    /\ models["a.pem"].ocsp_staple = "validated"
    /\ OneRenewPending
    /\ counts.fetched["a.pem"] = 0

\* C35 as stated: after a warm start (the staple on disk is good, validates
\* and is valid for longer than minimum_validity) no fetch is performed, one
\* renew task is scheduled at the staple's valid_until - minimum_validity and
\* the staple is sent to the admin socket once.
C35_WarmStartSendsOnce ==
    WarmStart ~> (~NothingFailed \/ RecyclingDisabled
                    \/ (Recycled /\ counts.sent["a.pem"] = 1))

\* C35, amended: after a warm start with recycling enabled no fetch is
\* performed and one renew task is scheduled at the staple's valid_until -
\* minimum_validity; nothing is sent to the admin socket before that renewal.
C35_WarmStartSendsNothing ==
    /\ WarmStart ~> (~NothingFailed \/ RecyclingDisabled
                       \/ (Recycled /\ counts.sent["a.pem"] = 0))
    /\ [](Recycled /\ counts.sent["a.pem"] = 0
            => [](Recycled /\ counts.sent["a.pem"] = 0))

C35_Witness == Recycled /\ NothingFailed /\ last.op = "parse" /\ counts.sent["a.pem"] = 0

\* ------------------------------------------------- C37
\* Queue.unfinished_tasks of the queue `name`: put() counts a task in and
\* task_done() counts it out, so it is the tasks waiting, the tasks a worker
\* is at, and the tasks whose worker went back to get_task without task_done.
unfinished_tasks(name) ==
    Len(queues[name])
    + Cardinality({w \in Workers : worker[w] # NoCtx /\ TaskNameOf(worker[w]) = name})
    + counts.not_done[name]

\* C37: every task a worker got from get_task is followed by one task_done
\* of that worker, whether the task succeeded or failed: when a queue is empty
\* and none of its workers is at a task, its count of unfinished tasks is zero.
C37_TaskDoneAfterEveryTask ==
    \A name \in QueueNames :
        (/\ queues[name] = << >>
         /\ \A w \in Workers : worker[w] = NoCtx \/ TaskNameOf(worker[w]) # name)
        => unfinished_tasks(name) = 0

\* ------------------------------------------------- C38
\* The daemon without an admin socket: `if self.socket_paths` is false, no
\* adder thread is started, and nothing calls get_task("proxy-add").
NextNoAdder ==
    \/ \E subject \in Subjects : FindNewCert(subject)
    \/ \E w \in Workers, name \in {"parse", "renew"} : GetTask(w, name)
    \/ \E w \in Workers : ParseTask(w)
    \/ \E w \in Workers : RenewTask(w)
    \/ Tick
    \/ SleepUntilDue

SpecNoAdder == Init /\ [][NextNoAdder]_vars

\* Every thread that was started gets its turn, and time passes.
SpecNoAdderFair ==
    /\ SpecNoAdder
    /\ WF_vars(\E subject \in Subjects : FindNewCert(subject))
    /\ WF_vars(\E w \in Workers, name \in {"parse", "renew"} : GetTask(w, name))
    /\ WF_vars(\E w \in Workers : ParseTask(w))
    /\ WF_vars(\E w \in Workers : RenewTask(w))
    /\ WF_vars(Tick)
    /\ WF_vars(SleepUntilDue)

\* C38: a task that is waiting on the proxy-add queue is eventually taken
\* from it, so the queue does not grow over successive renewals, also when no
\* adder thread was started.
C38_ProxyAddQueueDrains == (queues["proxy-add"] # << >>) ~> (queues["proxy-add"] = << >>)

\* ------------------------------------------------- util.functions.unique
\* The longest sequence unique() is called with.
MaxSeqLen == 4

\* The elements of the sequences: Python values with their type.  1 == True
\* and hash(1) == hash(True), so a set holds one of the two.
Elements ==
    {[v |-> 1, t |-> "int"], [v |-> 1, t |-> "bool"], [v |-> 2, t |-> "int"],
     [v |-> 4, t |-> "int"]}

\* x == y in Python.
PyEq(x, y) == x.v = y.v

\* `element in seen` for a set.
InSet(element, seen) == \E x \in seen : PyEq(x, element)

\* The lists and tuples of the bound.
Seqs ==
    {[type |-> ty, items |-> items] :
       ty \in {"list", "tuple"},
       items \in UNION {[1..n -> Elements] : n \in 0..MaxSeqLen}}

\* __unique_generator from the i-th element on, with the set `seen`: an
\* element that is not in seen is yielded and added to seen.
RECURSIVE unique_loop(_, _, _)
unique_loop(items, i, seen) ==
    IF i > Len(items) THEN << >>
    ELSE IF InSet(items[i], seen) THEN unique_loop(items, i + 1, seen)
    ELSE <<items[i]>> \o unique_loop(items, i + 1, seen \cup {items[i]})

\* A variant of unique_generator that yields an element when it is met for
\* the last time.
unique_generator_last(items) ==
    SelectSeq([i \in 1..Len(items) |->
                 IF \E j \in (i + 1)..Len(items) : PyEq(items[j], items[i])
                 THEN [v |-> 0, t |-> "skip"] ELSE items[i]],
              LAMBDA x : x.t # "skip")

\* unique_generator(seq) for a list or a tuple, as the values it yields.
unique_generator(items) == unique_loop(items, 1, { })

\* set(seq): of the elements that are equal the set keeps the first one.
PySet(items) == {unique_generator(items)[i] : i \in 1..Len(unique_generator(items))}

\* unique(seq, preserve_order), as the values it may return: type(seq) of the
\* generator, or type(seq)(set(seq)), whose order is the set's.
unique(seq, preserve_order) ==
    IF preserve_order
    THEN {[type |-> seq.type, items |-> unique_generator(seq.items)]}
    ELSE {[type |-> seq.type, items |-> items] : items \in Orders(PySet(seq.items))}

UniqueStep(u) ==
    /\ uniq' = u
    /\ UNCHANGED <<now, schedule, schedule_keys, scheduled_by_context, scheduled_by_queue,
                   scheduled_by_subject, queues, worker, added_order, late, last,
                   sched_thread, task_contexts, models, finder, failed, tried, handled,
                   finder_vars, adder, supervisor, counts>>

\* unique(seq, preserve_order) is called.
Unique(preserve_order) ==
    /\ uniq.calls = 0
    /\ \E result \in unique(uniq.seq, preserve_order) :
         UniqueStep([uniq EXCEPT !.preserve_order = preserve_order, !.calls = 1,
                                 !.result = result])

\* unique is called with what it returned.
UniqueAgain ==
    /\ uniq.calls = 1
    /\ \E result \in unique(uniq.result, uniq.preserve_order) :
         UniqueStep([uniq EXCEPT !.seq = uniq.result, !.calls = 2, !.result = result])

InitUnique ==
    /\ InitDaemon
    /\ counts = NotCounting
    /\ \E seq \in Seqs : uniq = [NoCall EXCEPT !.seq = seq]

NextUnique ==
    \/ \E preserve_order \in BOOLEAN : Unique(preserve_order)
    \/ UniqueAgain

SpecUnique == InitUnique /\ [][NextUnique]_vars

\* ------------------------------------------------- C36
\* The place of the first element of items that equals e.
FirstIndex(items, e) ==
    CHOOSE i \in 1..Len(items) :
        PyEq(items[i], e) /\ \A j \in 1..(i - 1) : ~PyEq(items[j], e)

\* result holds every distinct element of items once, each as it occurs
\* first in items, in the order of those first occurrences.
FirstOccurrences(items, result) ==
    /\ \A i \in 1..Len(items) : \E k \in 1..Len(result) : PyEq(result[k], items[i])
    /\ \A k \in 1..Len(result) :
         /\ \E i \in 1..Len(items) : PyEq(items[i], result[k])
         /\ result[k] = items[FirstIndex(items, result[k])]
    /\ \A k, l \in 1..Len(result) :
         k < l => FirstIndex(items, result[k]) < FirstIndex(items, result[l])

\* C36: for a list or a tuple seq, unique(seq, preserve_order=True) returns a
\* sequence of the type of seq that holds each distinct element of seq once,
\* in the order of first occurrence; unique of that result is the result.
C36_UniqueKeepsFirstOccurrences ==
    uniq.calls > 0 /\ uniq.preserve_order =>
        /\ uniq.result.type = uniq.seq.type
        /\ FirstOccurrences(uniq.seq.items, uniq.result.items)
        /\ uniq.calls = 2 => uniq.result = uniq.seq

C36_Witness ==
    /\ uniq.calls = 2 /\ uniq.preserve_order
    /\ uniq.seq.type = "tuple" /\ Len(uniq.result.items) = 3
    /\ uniq.result.items[1] = [v |-> 4, t |-> "int"]
    /\ uniq.result.items[2] = [v |-> 1, t |-> "bool"]

\* ------------------------------------------------- remove_queue
\* The loop of remove_queue over the list ctxs = scheduled_by_queue[name],
\* which the loop does not change: pop from scheduled_by_context, remove from
\* the time slot, `del self.scheduled_by_subject[ctx.subject]`.  pop and del
\* raise KeyError for a missing key (del does not create the key of a
\* defaultdict).
RECURSIVE remove_queue_loop(_, _, _)
remove_queue_loop(S, ctxs, i) ==
    IF i > Len(ctxs) THEN S
    ELSE IF ctxs[i] \notin DOMAIN S.by_context THEN [S EXCEPT !.exc = "KeyError"]
    ELSE
      LET S1 == remove_from_schedule(pop_context(S, ctxs[i]), ctxs[i], S.by_context[ctxs[i]])
      IN  IF S1.exc # "none" THEN S1
          ELSE IF SubjectOf(ctxs[i]) \notin DOMAIN S1.by_subject
          THEN [S1 EXCEPT !.exc = "KeyError"]
          ELSE remove_queue_loop([S1 EXCEPT !.by_subject = DictDel(@, SubjectOf(ctxs[i]))],
                                 ctxs, i + 1)

\* remove_queue(name): the loop, then the queue's entries of
\* scheduled_by_queue and _queues are deleted; a KeyError from anywhere in the
\* try block is raised again as "queue doesn't exist".
remove_queue(S, name) ==
    IF name \notin DOMAIN S.by_queue THEN [S EXCEPT !.exc = "KeyError"]
    ELSE
      LET S1 == remove_queue_loop(S, S.by_queue[name], 1)
      IN  IF S1.exc # "none" THEN S1
          ELSE IF name \notin DOMAIN S1.queues THEN [S1 EXCEPT !.exc = "KeyError"]
          ELSE [S1 EXCEPT !.by_queue = DictDel(@, name), !.queues = DictDel(@, name)]

\* add_queue(name) for a name that is not taken (a taken name raises
\* KeyError and changes nothing).
add_queue(S, name) ==
    [S EXCEPT !.queues = DictSet(@, name, << >>), !.by_queue = DictSet(@, name, << >>)]

\* The scheduler's fields become S, the outcome of the operation op.
QueuesStep(S, op) ==
    /\ Apply(S)
    /\ added_order' = AddedOrderNext(S, NoCtx)
    /\ late' = LateNext(S, NoCtx)
    /\ last' = Last(op, S.exc,
                     Cardinality(DOMAIN scheduled_by_context \ DOMAIN S.by_context), 0)
    /\ UNCHANGED <<now, worker, daemon_vars>>

RemoveQueue(name) == QueuesStep(remove_queue(Sched, name), "remove_queue")

AddQueue(name) ==
    /\ name \notin DOMAIN queues
    /\ QueuesStep(add_queue(Sched, name), "add_queue")

\* The context is pending in the deadline table and in every reverse map.
InAllMaps(S, c) ==
    /\ c \in DOMAIN S.by_context
    /\ InList(DefaultGet(S.schedule, S.by_context[c]), c)
    /\ TaskNameOf(c) \in DOMAIN S.by_queue
    /\ InList(S.by_queue[TaskNameOf(c)], c)
    /\ InList(DefaultGet(S.by_subject, SubjectOf(c)), c)

\* The context is in neither the deadline table nor any reverse map.
InNoMap(S, c) ==
    /\ c \notin DOMAIN S.by_context
    /\ \A t \in DOMAIN S.schedule : ~InList(S.schedule[t], c)
    /\ \A q \in DOMAIN S.by_queue : ~InList(S.by_queue[q], c)
    /\ \A s \in DOMAIN S.by_subject : ~InList(S.by_subject[s], c)

\* The tables agree with each other.
MapsAgree(S) == \A c \in TaskContexts : InAllMaps(S, c) \/ InNoMap(S, c)

\* Every queue of the daemon is registered and the tables agree.
Intact ==
    /\ DOMAIN queues = QueueNames /\ DOMAIN scheduled_by_queue = QueueNames
    /\ MapsAgree(Sched)

\* The contexts of the pipeline that are about a.pem and have a deadline at
\* times: two renew contexts and a parse context.
QueueContexts == {c \in TaskContexts : SubjectOf(c) = "a.pem" /\ TaskNameOf(c) # "proxy-add"}

\* The scheduler with queues that come and go.  Tasks are added and
\* dispatched while every queue is registered; the run is followed as long
\* as the tables agree with each other.
NextQueues ==
    \/ \E c \in QueueContexts, st \in SchedTimes : Intact /\ AddTask(c, st)
    \/ Intact /\ Tick
    \/ AdvanceTime
    \/ \E name \in QueueNames : MapsAgree(Sched) /\ RemoveQueue(name)
    \/ \E name \in QueueNames : MapsAgree(Sched) /\ AddQueue(name)

SpecQueues == Init /\ [][NextQueues]_vars

\* ------------------------------------------------- C40
\* C40: remove_queue(name) on a registered queue, with tables that agree,
\* removes the queue and exactly the pending tasks of that queue from the
\* deadline table and every reverse map; the pending tasks of the other
\* queues stay scheduled, at their deadlines, in tables that agree.
C40_RemoveQueueRemovesItsTasks ==
    [][\A name \in QueueNames :
          RemoveQueue(name) /\ name \in DOMAIN queues /\ MapsAgree(Sched) =>
            /\ name \notin DOMAIN queues'
            /\ name \notin DOMAIN scheduled_by_queue'
            /\ MapsAgree(Sched')
            /\ \A c \in TaskContexts :
                 IF TaskNameOf(c) = name
                 THEN InNoMap(Sched', c)
                 ELSE /\ InAllMaps(Sched, c) <=> InAllMaps(Sched', c)
                      /\ InAllMaps(Sched, c) =>
                           scheduled_by_context'[c] = scheduled_by_context[c]]_vars

\* What holds: when each task of the removed queue is the only pending task
\* of its subject, remove_queue does what C40 says.
C40_AloneWithItsSubject ==
    [][\A name \in QueueNames :
          /\ RemoveQueue(name) /\ name \in DOMAIN queues /\ MapsAgree(Sched)
          /\ \A c \in TaskContexts :
               InAllMaps(Sched, c) /\ TaskNameOf(c) = name
                 => Len(scheduled_by_subject[SubjectOf(c)]) = 1
          =>
            /\ name \notin DOMAIN queues'
            /\ name \notin DOMAIN scheduled_by_queue'
            /\ MapsAgree(Sched')
            /\ \A c \in TaskContexts :
                 IF TaskNameOf(c) = name
                 THEN InNoMap(Sched', c)
                 ELSE /\ InAllMaps(Sched, c) <=> InAllMaps(Sched', c)
                      /\ InAllMaps(Sched, c) =>
                           scheduled_by_context'[c] = scheduled_by_context[c]]_vars

====
